---- MODULE Spec2Model ----
(***************************************************************************)
(* A model of pmd_beamphysics.fields: the Biot-Savart field functions of   *)
(* corrector_modeling.py, the mesh builders and their dispatcher, and the  *)
(* FieldMesh value object of fieldmesh.py.                                 *)
(*                                                                         *)
(* Arithmetic.  numpy's float64 is modelled by exact real arithmetic on    *)
(* the numbers the formulas produce from rational inputs: finite sums      *)
(* q1*sqrt(r1) + ... + qk*sqrt(rk) with rational qi and distinct           *)
(* squarefree ri (rounding is not modelled).  Every non-finite float       *)
(* (inf, nan) is the one value NaN: in the wire formula every inf is       *)
(* multiplied by a nan before it is returned.  Fields are expressed in     *)
(* units of u0/(4*pi), angles in quarter turns (pi/2).                     *)
(***************************************************************************)
EXTENDS Integers, Sequences, FiniteSets, TLC

VARIABLES call, ret, attrs, components, arrays, aliases

vars == <<call, ret, attrs, components, arrays, aliases>>


----------------------------------------------------------------------------
(* Rationals <<n, d>>, d > 0, in lowest terms.                             *)

Abs(n) == IF n < 0 THEN -n ELSE n

RECURSIVE GCD(_, _)
GCD(a, b) == IF b = 0 THEN a ELSE GCD(b, a % b)

Reduced(n, d, g) == IF d < 0 THEN <<(-n) \div g, (-d) \div g>> ELSE <<n \div g, d \div g>>
QNorm(n, d) == Reduced(n, d, GCD(Abs(n), Abs(d)))

QZero == <<0, 1>>
(* Common factors are divided out before the products are taken.          *)
QAddBy(p, q, g) == QNorm(p[1] * (q[2] \div g) + q[1] * (p[2] \div g), (p[2] \div g) * q[2])
QAdd(p, q) == QAddBy(p, q, GCD(p[2], q[2]))
QMulBy(p, q, g1, g2) ==
    <<(p[1] \div g1) * (q[1] \div g2), (p[2] \div g2) * (q[2] \div g1)>>
QMul(p, q) ==
    IF p[1] = 0 \/ q[1] = 0 THEN QZero
    ELSE QMulBy(p, q, GCD(Abs(p[1]), q[2]), GCD(Abs(q[1]), p[2]))
QInv(p) == IF p[1] < 0 THEN <<-p[2], -p[1]>> ELSE <<p[2], p[1]>>

(* The largest g with g*g dividing n (n >= 1), searched upwards from g.    *)
RECURSIVE SquarePart(_, _, _)
SquarePart(n, g, best) ==
    IF g * g > n THEN best
    ELSE SquarePart(n, g + 1, IF n % (g * g) = 0 THEN g ELSE best)

----------------------------------------------------------------------------
(* Reals: a set of terms <<r, q>> standing for the sum of q*sqrt(r), with  *)
(* r squarefree and q # 0; {} is zero.  NaN stands for every non-finite    *)
(* float.                                                                  *)

NaN == {<<0, QZero>>}
IsNaN(x) == x = NaN
Num(n) == IF n = 0 THEN {} ELSE {<<1, <<n, 1>>>>}
Frac(n, d) == IF n = 0 THEN {} ELSE {<<1, QNorm(n, d)>>}
Coef(x, r) == IF \E t \in x : t[1] = r THEN (CHOOSE t \in x : t[1] = r)[2] ELSE QZero
Rads(x) == {t[1] : t \in x}

RAdd(x, y) ==
    IF IsNaN(x) \/ IsNaN(y) THEN NaN
    ELSE {t \in {<<r, QAdd(Coef(x, r), Coef(y, r))>> : r \in Rads(x) \cup Rads(y)} :
             t[2][1] # 0}
RNeg(x) == IF IsNaN(x) THEN NaN ELSE {<<t[1], <<-t[2][1], t[2][2]>>>> : t \in x}
RSub(x, y) == RAdd(x, RNeg(y))

(* sqrt(r)*sqrt(s) = g*sqrt(r*s/g^2) for squarefree r, s and g = gcd(r,s). *)
TermMulBy(t, u, g) ==
    <<(t[1] \div g) * (u[1] \div g), QMul(QMul(t[2], u[2]), <<g, 1>>)>>
TermMul(t, u) == TermMulBy(t, u, GCD(t[1], u[1]))

(* The sum of the products of the term pairs ps, p being one of them.     *)
RECURSIVE SumProducts(_)
SumProductsFrom(p, ps) == RAdd({TermMul(p[1], p[2])}, SumProducts(ps \ {p}))
SumProducts(ps) == IF ps = {} THEN {} ELSE SumProductsFrom(CHOOSE p \in ps : TRUE, ps)
RMul(x, y) == IF IsNaN(x) \/ IsNaN(y) THEN NaN ELSE SumProducts(x \X y)

(* x / y for y zero or a single term q*sqrt(r): 1/(q*sqrt(r)) =            *)
(* sqrt(r)/(q*r).  A zero divisor gives a non-finite float.                *)
IsMonomial(y) == Cardinality(y) = 1
Reciprocal(t) == <<t[1], QMul(QInv(t[2]), <<1, t[1]>>)>>
RDiv(x, y) ==
    IF IsNaN(x) \/ IsNaN(y) \/ y = {} THEN NaN
    ELSE RMul(x, {Reciprocal(CHOOSE t \in y : IsMonomial(y))})

(* sqrt of a rational x >= 0: sqrt(n/d) = (gn/(gd*sd)) * sqrt(sn*sd) with  *)
(* n = gn^2*sn and d = gd^2*sd.                                            *)
RootTerm(n, gn, d, gd) ==
    TermMul(<<n \div (gn * gn), <<gn, 1>>>>,
            <<d \div (gd * gd), <<1, gd * (d \div (gd * gd))>>>>)
RootOf(q) == RootTerm(q[1], SquarePart(q[1], 1, 1), q[2], SquarePart(q[2], 1, 1))
RSqrt(x) ==
    IF IsNaN(x) THEN NaN
    ELSE IF x = {} THEN {}
    ELSE {RootOf((CHOOSE t \in x : Cardinality(x) = 1 /\ t[1] = 1 /\ t[2][1] > 0)[2])}

----------------------------------------------------------------------------
(* 3-vectors of reals.                                                     *)

Vec(x, y, z) == <<Num(x), Num(y), Num(z)>>
VAdd(u, v) == <<RAdd(u[1], v[1]), RAdd(u[2], v[2]), RAdd(u[3], v[3])>>
VSub(u, v) == <<RSub(u[1], v[1]), RSub(u[2], v[2]), RSub(u[3], v[3])>>
VScale(s, v) == <<RMul(s, v[1]), RMul(s, v[2]), RMul(s, v[3])>>
VDiv(v, s) == <<RDiv(v[1], s), RDiv(v[2], s), RDiv(v[3], s)>>
Dot(u, v) == RAdd(RAdd(RMul(u[1], v[1]), RMul(u[2], v[2])), RMul(u[3], v[3]))
Cross(u, v) ==
    <<RSub(RMul(u[2], v[3]), RMul(u[3], v[2])),
      RSub(RMul(u[3], v[1]), RMul(u[1], v[3])),
      RSub(RMul(u[1], v[2]), RMul(u[2], v[1]))>>
Norm(v) == RSqrt(Dot(v, v))
Square(x) == RMul(x, x)


----------------------------------------------------------------------------
(* Python values.  An optional argument is <<>> (None) or <<v>>.  A call   *)
(* either raises (exc names the exception class) or returns a value; done  *)
(* lists, in order, the effects the call had before it ended: "grid" (a    *)
(* meshgrid built), "field" (one wire's field computed), "plot" (a plot    *)
(* call made), "FieldMesh" (a FieldMesh constructed).                      *)

None == <<>>
Some(v) == <<v>>
Val(o) == o[1]
NoneValue == [type |-> "NoneType"]
Raised(exc, msg, done) == [exc |-> exc, msg |-> msg, value |-> NoneValue, done |-> done]
Returned(v, done) == [exc |-> "", msg |-> "", value |-> v, done |-> done]
Tuple3(a, b, c) == [type |-> "tuple", items |-> <<a, b, c>>]

(* Sequencing: the call r, then, unless it raised, the rest of the caller  *)
(* applied to what r returned; the effects of both are kept in order.      *)
ThenRest(r, s) == [s EXCEPT !.done = r.done \o s.done]
Then(r, rest(_)) == IF r.exc # "" THEN r ELSE ThenRest(r, rest(r.value))

(* numpy arrays: a shape and the elements in C order.                      *)
Size(shape) == shape[1] * shape[2] * shape[3]
NDArray(shape, f(_)) == [shape |-> shape, data |-> [m \in 1..Size(shape) |-> f(m)]]
zeros(shape) == NDArray(shape, LAMBDA m : {})
ArrAdd(A, B) == NDArray(A.shape, LAMBDA m : RAdd(A.data[m], B.data[m]))
Tuple3Add(t, u) ==
    Tuple3(ArrAdd(t.items[1], u.items[1]), ArrAdd(t.items[2], u.items[2]),
           ArrAdd(t.items[3], u.items[3]))

(* np.linspace(start, stop, num) for num >= 0; linspace_open is the        *)
(* variant with endpoint=False.                                            *)
linspace_open(start, stop, num) ==
    [i \in 1..num |-> RAdd(start, RMul(Frac(i - 1, num), RSub(stop, start)))]
linspace(start, stop, num) ==
    [i \in 1..num |->
        IF num = 1 THEN start
        ELSE RAdd(start, RMul(Frac(i - 1, num - 1), RSub(stop, start)))]

(* np.meshgrid(xs, ys, zs, indexing='ij'): element (i, j, k) of X, Y, Z is *)
(* xs[i], ys[j], zs[k].                                                    *)
GridShape(xs, ys, zs) == <<Len(xs), Len(ys), Len(zs)>>
meshgridOf(xs, ys, zs, shape) ==
    <<NDArray(shape, LAMBDA m : xs[((m - 1) \div (shape[2] * shape[3])) + 1]),
      NDArray(shape, LAMBDA m : ys[(((m - 1) \div shape[3]) % shape[2]) + 1]),
      NDArray(shape, LAMBDA m : zs[((m - 1) % shape[3]) + 1])>>
meshgrid(xs, ys, zs) == meshgridOf(xs, ys, zs, GridShape(xs, ys, zs))

----------------------------------------------------------------------------
(* corrector_modeling.py.  Python looks a function's name up in the        *)
(* module when the call is made: Call(fn, args) is the call of the         *)
(* module's function named fn with the positional arguments args.          *)

RECURSIVE Call(_, _)

(* The field of one straight wire.                                         *)

(* Lines 135-136: B0 from the axial coordinates x1, x2 of the wire's ends  *)
(* and the distance R of the point from the wire's line; WireB0FarEnd      *)
(* keeps the term of the end p2 alone.                                     *)
WireB0FarEnd(current, x1, x2, R) ==
    RMul(RDiv(current, R), RDiv(x2, RSqrt(RAdd(Square(x2), Square(R)))))
WireB0(current, x1, x2, R) ==
    RMul(RDiv(current, R),
         RSub(RDiv(x2, RSqrt(RAdd(Square(x2), Square(R)))),
              RDiv(x1, RSqrt(RAdd(Square(x1), Square(R))))))

(* Lines 125-138: e2 normalized, e3 = e1 x e2, R = e2_norm, B = B0*e3.     *)
WireB(current, e1, e2, e2_norm, x1, x2) ==
    VScale(WireB0(current, x1, x2, e2_norm), Cross(e1, VDiv(e2, e2_norm)))

(* Lines 122-132: e1 = Lhat, e2 = P - lmin and its norm, x1 and x2.        *)
WireFieldAbout(P, p1, p2, current, e1, lmin) ==
    WireB(current, e1, VSub(P, lmin), Norm(VSub(P, lmin)),
          Dot(VSub(p1, lmin), e1), Dot(VSub(p2, lmin), e1))

(* Lines 117-118: tmin and lmin, the point of the line nearest to P.       *)
WireFieldAlong(P, p1, p2, current, Lhat) ==
    WireFieldAbout(P, p1, p2, current, Lhat,
                   VAdd(p1, VScale(Dot(VSub(P, p1), Lhat), Lhat)))

(* Lines 113-138 at one observation point P: L, Lhat and the rest.         *)
WireFieldAt(P, p1, p2, current) ==
    WireFieldAlong(P, p1, p2, current, VDiv(VSub(p2, p1), Norm(VSub(p2, p1))))

(* Lines 110-138 over the whole point cloud: B at the points 1..n, in      *)
(* order.                                                                  *)
RECURSIVE WireField(_, _, _, _, _, _, _)
WireField(x, y, z, p1, p2, current, n) ==
    IF n = 0 THEN <<>>
    ELSE Append(WireField(x, y, z, p1, p2, current, n - 1),
                WireFieldAt(<<x.data[n], y.data[n], z.data[n]>>, p1, p2, current))

(* Lines 140-151: plot_wire with return_axes falls off the end of the     *)
(* function and returns None.                                              *)
WireReturn(shape, B, plot_wire, return_axes, done) ==
    IF plot_wire /\ return_axes
    THEN Returned(NoneValue, done)
    ELSE Returned(Tuple3(NDArray(shape, LAMBDA m : B[m][1]),
                         NDArray(shape, LAMBDA m : B[m][2]),
                         NDArray(shape, LAMBDA m : B[m][3])), done)

(* Lines 102-151.  The assert comes first; wire_unchecked is the function  *)
(* without it.                                                             *)
wire_unchecked(x, y, z, p1, p2, current, plot_wire, return_axes) ==
    WireReturn(x.shape, WireField(x, y, z, p1, p2, current, Size(x.shape)),
               plot_wire, return_axes,
               <<"field">> \o (IF plot_wire THEN <<"plot">> ELSE <<>>))
bfield_from_thin_straight_wire(x, y, z, p1, p2, current, plot_wire, return_axes) ==
    IF Norm(VSub(p2, p1)) = {}
    THEN Raised("AssertionError", "Line must be specified by 2 distinct points", <<>>)
    ELSE WireReturn(x.shape, WireField(x, y, z, p1, p2, current, Size(x.shape)),
                    plot_wire, return_axes,
                    <<"field">> \o (IF plot_wire THEN <<"plot">> ELSE <<>>))

Half(x) == RDiv(x, Num(2))
Plots(plot_wire, n) == IF plot_wire THEN [i \in 1..n |-> "plot"] ELSE <<>>

(* Lines 194-202: the corners p1, p2, p3, p4 of the coil.  CornersReversed *)
(* has them in the opposite winding order.                                 *)
CornersReversed(a2, b2, y0) ==
    <<<<RNeg(a2), y0, b2>>, <<a2, y0, b2>>,
      <<a2, y0, RNeg(b2)>>, <<RNeg(a2), y0, RNeg(b2)>>>>
Corners(a2, b2, y0) ==
    <<<<RNeg(a2), y0, RNeg(b2)>>, <<a2, y0, RNeg(b2)>>,
      <<a2, y0, b2>>, <<RNeg(a2), y0, b2>>>>

(* Lines 204-213: the four wires p1->p2->p3->p4->p1, each called with      *)
(* plot_wire=False; the coil plots its own four arrows.                    *)
CoilField(X, Y, Z, p, current, plot_wire) ==
    LET wire(q1, q2) ==
            Call("bfield_from_thin_straight_wire",
                 <<X, Y, Z, q1, q2, current, FALSE, FALSE>>)
    IN  Then(wire(p[1], p[2]), LAMBDA B1 :
        Then(wire(p[2], p[3]), LAMBDA B2 :
        Then(wire(p[3], p[4]), LAMBDA B3 :
        Then(wire(p[4], p[1]), LAMBDA B4 :
        Returned(Tuple3Add(Tuple3Add(Tuple3Add(B1, B2), B3), B4),
                 Plots(plot_wire, 4))))))

(* Lines 194-215.                                                          *)
bfield_from_thin_rectangular_coil(X, Y, Z, a, b, y0, current, plot_wire) ==
    CoilField(X, Y, Z, Corners(Half(a), Half(b), y0), current, plot_wire)

(* Lines 258-265: the coil at y0 = -h/2 plus the coil at y0 = +h/2;        *)
(* corrector_one_level has both coils at -h/2.                             *)
corrector_one_level(X, Y, Z, a, b, h, current, plot_wire) ==
    Then(Call("bfield_from_thin_rectangular_coil",
              <<X, Y, Z, a, b, RNeg(Half(h)), current, plot_wire>>), LAMBDA B1 :
    Then(Call("bfield_from_thin_rectangular_coil",
              <<X, Y, Z, a, b, RNeg(Half(h)), current, plot_wire>>), LAMBDA B2 :
    Returned(Tuple3Add(B1, B2), <<>>)))
bfield_from_thin_rectangular_corrector(X, Y, Z, a, b, h, current, plot_wire) ==
    Then(Call("bfield_from_thin_rectangular_coil",
              <<X, Y, Z, a, b, RNeg(Half(h)), current, plot_wire>>), LAMBDA B1 :
    Then(Call("bfield_from_thin_rectangular_coil",
              <<X, Y, Z, a, b, Half(h), current, plot_wire>>), LAMBDA B2 :
    Returned(Tuple3Add(B1, B2), <<>>)))

----------------------------------------------------------------------------
(* Arcs and saddle coils.  Angles are reals in quarter turns; cos and sin  *)
(* are taken at whole quarter turns, where they are 0, 1 or -1.            *)

pi == Num(2)
QuarterTurns(t) == IF t = {} THEN 0 ELSE (CHOOSE u \in t : u[1] = 1 /\ u[2][2] = 1)[2][1]
IsWholeAngle(t) == t = {} \/ (Cardinality(t) = 1 /\ \E u \in t : u[1] = 1 /\ u[2][2] = 1)
cos(t) == Num(<<1, 0, -1, 0>>[(QuarterTurns(t) % 4) + 1])
sin(t) == Num(<<0, 1, 0, -1>>[(QuarterTurns(t) % 4) + 1])

(* Lines 307-309: the last row of the matrix is zero.                      *)
rotate_around_e3(theta) ==
    <<<<cos(theta), RNeg(sin(theta)), {}>>, <<sin(theta), cos(theta), {}>>, <<{}, {}, {}>>>>
matmul(M, v) == <<Dot(M[1], v), Dot(M[2], v), Dot(M[3], v)>>

(* Lines 372-378: the points h*e3 + R*rotate(th)*arc_e1 for th in ths.     *)
ArcPoints(h, R, arc_e1, ths) ==
    [ii \in DOMAIN ths |->
        VAdd(<<{}, {}, h>>, VScale(R, matmul(rotate_around_e3(ths[ii]), arc_e1)))]

(* Lines 361-378, with the default arc_e3 = (0, 0, 1), for which the       *)
(* assert on line 367 holds: arc_e1 has no z component.  arc_from_e1 is    *)
(* the arc that starts at azimuth 0, without the rotation by phi.          *)
arc_from_e1(h, R, theta, npts) ==
    ArcPoints(h, R, Vec(1, 0, 0), linspace({}, theta, npts))
get_arc_vectors(h, R, theta, npts) ==
    ArcPoints(h, R, matmul(rotate_around_e3(Half(RSub(pi, theta))), Vec(1, 0, 0)),
              linspace({}, theta, npts))

(* Lines 413-425: the wires ps[ii] -> ps[ii+1], ii = from, from+1, ...,    *)
(* summed onto B in order; the first to raise ends the loop.               *)
RECURSIVE ArcLoop(_, _, _, _, _, _, _, _)
ArcLoop(X, Y, Z, ps, from, current, plot_wire, B) ==
    IF from >= Len(ps) THEN Returned(B, <<>>)
    ELSE Then(Call("bfield_from_thin_straight_wire",
                   <<X, Y, Z, ps[from], ps[from + 1], current, plot_wire, FALSE>>),
              LAMBDA Bii : ArcLoop(X, Y, Z, ps, from + 1, current, plot_wire,
                                   Tuple3Add(B, Bii)))

(* Lines 405-427.  npts is optional where the dispatcher passes it on:     *)
(* np.linspace raises TypeError for None and ValueError below zero.        *)
bfield_from_thin_wire_arc(X, Y, Z, h, R, theta, npts, current, plot_wire) ==
    IF npts = None
    THEN Raised("TypeError", "'NoneType' object cannot be interpreted as an integer", <<>>)
    ELSE IF Val(npts) < 0
    THEN Raised("ValueError", "Number of samples must be non-negative", <<>>)
    ELSE ArcLoop(X, Y, Z, get_arc_vectors(h, R, theta, Val(npts)), 1, current, plot_wire,
                 Tuple3(zeros(X.shape), zeros(Y.shape), zeros(Z.shape)))

(* Lines 449-458: the ends p11, p21 and p12, p22 of the two straight       *)
(* sections.  StraightsSameWay has the second section run from +L/2 to     *)
(* -L/2 like the first.                                                    *)
StraightsSameWay(L2, R, phi) ==
    <<<<RMul(R, cos(phi)), RMul(R, sin(phi)), L2>>,
      <<RMul(R, cos(phi)), RMul(R, sin(phi)), RNeg(L2)>>,
      <<RMul(RNeg(R), cos(phi)), RMul(R, sin(phi)), L2>>,
      <<RMul(RNeg(R), cos(phi)), RMul(R, sin(phi)), RNeg(L2)>>>>
Straights(L2, R, phi) ==
    <<<<RMul(R, cos(phi)), RMul(R, sin(phi)), L2>>,
      <<RMul(R, cos(phi)), RMul(R, sin(phi)), RNeg(L2)>>,
      <<RMul(RNeg(R), cos(phi)), RMul(R, sin(phi)), RNeg(L2)>>,
      <<RMul(RNeg(R), cos(phi)), RMul(R, sin(phi)), L2>>>>

(* Lines 438-465: the arc at -L/2 with +theta, the arc at +L/2 with        *)
(* -theta, then the straight sections p11 -> p21 and p12 -> p22.           *)
SaddleField(X, Y, Z, L2, R, theta, current, npts, plot_wire, p) ==
    LET wire(q1, q2) ==
            Call("bfield_from_thin_straight_wire",
                 <<X, Y, Z, q1, q2, current, plot_wire, FALSE>>)
        arc(h, th) ==
            Call("bfield_from_thin_wire_arc",
                 <<X, Y, Z, h, R, th, npts, current, plot_wire>>)
    IN  Then(arc(RNeg(L2), theta), LAMBDA A1 :
        Then(arc(L2, RNeg(theta)), LAMBDA A2 :
        Then(wire(p[1], p[2]), LAMBDA S1 :
        Then(wire(p[3], p[4]), LAMBDA S2 :
        Returned(Tuple3Add(Tuple3Add(A1, A2), Tuple3Add(S1, S2)), <<>>)))))

(* Lines 430-465.                                                          *)
bfield_from_thin_saddle_coil(X, Y, Z, L, R, theta, current, npts, plot_wire) ==
    SaddleField(X, Y, Z, Half(L), R, theta, current, npts, plot_wire,
                Straights(Half(L), R, Half(RSub(pi, theta))))

(* Lines 468-476: the coil (+L, +R) plus the coil (-L, -R).                *)
bfield_from_thin_saddle_corrector(X, Y, Z, L, R, theta, current, npts, plot_wire) ==
    Then(Call("bfield_from_thin_saddle_coil",
              <<X, Y, Z, L, R, theta, current, npts, plot_wire>>), LAMBDA B1 :
    Then(Call("bfield_from_thin_saddle_coil",
              <<X, Y, Z, RNeg(L), RNeg(R), theta, current, npts, plot_wire>>), LAMBDA B2 :
    Returned(Tuple3Add(B1, B2), <<>>)))
----------------------------------------------------------------------------
(* The component registry of pmd_beamphysics.readers: every record         *)
(* component has one alias, the record's capital initial and the           *)
(* component's name.                                                       *)

field_record_components ==
    [electricField |-> <<"x", "y", "z", "r", "theta">>,
     magneticField |-> <<"x", "y", "z", "r", "theta">>]
Range(f) == {f[i] : i \in DOMAIN f}
component_from_alias ==
    [Ex |-> "electricField/x", Ey |-> "electricField/y", Ez |-> "electricField/z",
     Er |-> "electricField/r", Etheta |-> "electricField/theta",
     Bx |-> "magneticField/x", By |-> "magneticField/y", Bz |-> "magneticField/z",
     Br |-> "magneticField/r", Btheta |-> "magneticField/theta"]
component_alias ==
    [k \in Range(component_from_alias) |->
        CHOOSE a \in DOMAIN component_from_alias : component_from_alias[a] = k]

(* fieldmesh.py lines 50-72 with data given: the object keeps the data     *)
(* dict itself and binds one attribute per stored component, named by the  *)
(* component's alias, to the component's array.                            *)
FieldMesh(data) ==
    IF \E k \in DOMAIN data.components : k \notin DOMAIN component_alias
    THEN Raised("KeyError", "component_alias", <<>>)
    ELSE Returned([type |-> "FieldMesh", data |-> data,
                   dict |-> [a \in {component_alias[k] : k \in DOMAIN data.components} |->
                                data.components[component_from_alias[a]]]],
                  <<"FieldMesh">>)

----------------------------------------------------------------------------
(* corrector_modeling.py: the mesh builders.  Keyword arguments are a      *)
(* record kw of optionals.                                                 *)

(* np.linspace(lo, hi, n) on optional arguments: None raises TypeError.    *)
GridAxis(lo, hi, n) ==
    IF lo = None \/ hi = None \/ n = None
    THEN Raised("TypeError", "unsupported operand type(s): 'NoneType'", <<>>)
    ELSE IF Val(n) < 0
    THEN Raised("ValueError", "Number of samples must be non-negative", <<>>)
    ELSE Returned(linspace(Val(lo), Val(hi), Val(n)), <<>>)

(* Lines 567-571: xs, ys, zs and the meshgrid.                             *)
BuildGrid(kw) ==
    Then(GridAxis(kw.xmin, kw.xmax, kw.nx), LAMBDA xs :
    Then(GridAxis(kw.ymin, kw.ymax, kw.ny), LAMBDA ys :
    Then(GridAxis(kw.zmin, kw.zmax, kw.nz), LAMBDA zs :
    Returned([xs |-> xs, ys |-> ys, zs |-> zs, XYZ |-> meshgrid(xs, ys, zs)],
             <<"grid">>))))

(* Lines 579-588: the attributes.  MeshAttrsAtOrigin is the variant with   *)
(* the grid origin offset at the lower bound (0, 0, 0).                    *)
MeshAttrsAtOrigin(g, shape) ==
    [gridOriginOffset |-> <<{}, {}, {}>>,
     gridSpacing |-> <<RSub(g.xs[2], g.xs[1]), RSub(g.ys[2], g.ys[1]),
                       RSub(g.zs[2], g.zs[1])>>,
     gridSize |-> shape,
     eleAnchorPt |-> "center",
     gridGeometry |-> "rectangular",
     axisLabels |-> <<"x", "y", "z">>,
     gridLowerBound |-> <<0, 0, 0>>,
     harmonic |-> 0,
     fundamentalFrequency |-> 0]
MeshAttrs(g, shape) ==
    [gridOriginOffset |-> <<g.xs[1], g.ys[1], g.zs[1]>>,
     gridSpacing |-> <<RSub(g.xs[2], g.xs[1]), RSub(g.ys[2], g.ys[1]),
                       RSub(g.zs[2], g.zs[1])>>,
     gridSize |-> shape,
     eleAnchorPt |-> "center",
     gridGeometry |-> "rectangular",
     axisLabels |-> <<"x", "y", "z">>,
     gridLowerBound |-> <<0, 0, 0>>,
     harmonic |-> 0,
     fundamentalFrequency |-> 0]

(* Lines 575-597: np.diff(xs)[0] needs two points on the axis; then the    *)
(* attributes, the three magnetic components and the FieldMesh.            *)
MeshFromField(g, B) ==
    IF Len(g.xs) < 2 \/ Len(g.ys) < 2 \/ Len(g.zs) < 2
    THEN Raised("IndexError", "index 0 is out of bounds for axis 0 with size 0", <<>>)
    ELSE FieldMesh(
           [attrs |-> MeshAttrs(g, B.items[1].shape),
            components |->
              [k \in {"magneticField/x", "magneticField/y", "magneticField/z"} |->
                 IF k = "magneticField/x" THEN B.items[1]
                 ELSE IF k = "magneticField/y" THEN B.items[2] ELSE B.items[3]]])

(* Lines 567-597.  The corrector is called with plot_wire=True whatever    *)
(* the argument; a missing a, b or h raises TypeError at -h/2 or -a/2.     *)
make_rectangular_dipole_corrector_fieldmesh(kw) ==
    Then(BuildGrid(kw), LAMBDA g :
    Then(IF kw.a = None \/ kw.b = None \/ kw.h = None
         THEN Raised("TypeError", "bad operand type for unary -: 'NoneType'", <<>>)
         ELSE Call("bfield_from_thin_rectangular_corrector",
                   <<g.XYZ[1], g.XYZ[2], g.XYZ[3], Val(kw.a), Val(kw.b), Val(kw.h),
                     Val(kw.current), TRUE>>), LAMBDA B :
    MeshFromField(g, B)))

(* Lines 690-726.  A missing L, R or theta raises TypeError at +L, +R or   *)
(* np.pi - theta.                                                          *)
make_saddle_dipole_corrector_fieldmesh(kw) ==
    Then(BuildGrid(kw), LAMBDA g :
    Then(IF kw.R = None \/ kw.L = None \/ kw.theta = None
         THEN Raised("TypeError", "bad operand type for unary +: 'NoneType'", <<>>)
         ELSE Call("bfield_from_thin_saddle_corrector",
                   <<g.XYZ[1], g.XYZ[2], g.XYZ[3], Val(kw.L), Val(kw.R), Val(kw.theta),
                     Val(kw.current), kw.npts, kw.plot_wire>>), LAMBDA B :
    MeshFromField(g, B)))

(* Lines 986-1028: the nine asserts, in the order xmin, ymin, zmin, xmax,  *)
(* ymax, zmax, nx, ny, nz.                                                 *)
make_thin_straight_wire_fieldmesh(p1, p2, kw) ==
    LET names   == <<"No xmin specified", "No ymin specified", "No zmin specified",
                     "No xmax specified", "No ymax specified", "No zmax specified",
                     "No nx specified", "No ny specified", "No nz specified">>
        args    == <<kw.xmin, kw.ymin, kw.zmin, kw.xmax, kw.ymax, kw.zmax,
                     kw.nx, kw.ny, kw.nz>>
        missing == {i \in 1..9 : args[i] = None}
    IN  IF missing # {}
        THEN Raised("AssertionError",
                    names[CHOOSE i \in missing : \A j \in missing : i <= j], <<>>)
        ELSE Then(BuildGrid(kw), LAMBDA g :
             Then(Call("bfield_from_thin_straight_wire",
                       <<g.XYZ[1], g.XYZ[2], g.XYZ[3], p1, p2, Val(kw.current),
                         kw.plot_wire, FALSE>>), LAMBDA B :
             MeshFromField(g, B)))

(* Lines 870-886: each grid bound left at None is filled from R or L, in   *)
(* the order xmin, ymin, zmin, xmax, ymax, zmax; the first that needs a    *)
(* missing R or L raises TypeError.                                        *)
SaddleDefaults(kw) ==
    LET bounds  == <<kw.xmin, kw.ymin, kw.zmin, kw.xmax, kw.ymax, kw.zmax>>
        fails   == {i \in 1..6 : /\ bounds[i] = None
                                 /\ IF i \in {3, 6} THEN kw.L = None ELSE kw.R = None}
        first   == CHOOSE i \in fails : \A j \in fails : i <= j
        fiveL2  == RDiv(RMul(Num(5), Val(kw.L)), Num(2))
    IN  IF fails # {}
        THEN Raised("TypeError",
                    <<"bad operand type for unary -: 'NoneType'",
                      "bad operand type for unary -: 'NoneType'",
                      "unsupported operand type(s) for *: 'int' and 'NoneType'",
                      "bad operand type for unary +: 'NoneType'",
                      "bad operand type for unary +: 'NoneType'",
                      "unsupported operand type(s) for *: 'int' and 'NoneType'">>[first],
                    <<>>)
        ELSE Returned(
               [kw EXCEPT !.xmin = IF @ = None THEN Some(RNeg(Val(kw.R))) ELSE @,
                          !.ymin = IF @ = None THEN Some(RNeg(Val(kw.R))) ELSE @,
                          !.zmin = IF @ = None THEN Some(RNeg(fiveL2)) ELSE @,
                          !.xmax = IF @ = None THEN Some(Val(kw.R)) ELSE @,
                          !.ymax = IF @ = None THEN Some(Val(kw.R)) ELSE @,
                          !.zmax = IF @ = None THEN Some(fiveL2) ELSE @], <<>>)

(* Lines 841-859: f = 0.99; the bounds left at None become -f*a, -f*h/2,   *)
(* -5*b, +f*a, +f*h/2, +5*b.                                               *)
RectangularDefaults(kw) ==
    LET f == Frac(99, 100)
    IN  [kw EXCEPT !.xmin = IF @ = None THEN Some(RMul(RNeg(f), Val(kw.a))) ELSE @,
                   !.ymin = IF @ = None THEN Some(Half(RMul(RNeg(f), Val(kw.h)))) ELSE @,
                   !.zmin = IF @ = None THEN Some(RMul(Num(-5), Val(kw.b))) ELSE @,
                   !.xmax = IF @ = None THEN Some(RMul(f, Val(kw.a))) ELSE @,
                   !.ymax = IF @ = None THEN Some(Half(RMul(f, Val(kw.h)))) ELSE @,
                   !.zmax = IF @ = None THEN Some(RMul(Num(5), Val(kw.b))) ELSE @]

(* Lines 837-904.  The rectangular builder is given no npts; the saddle    *)
(* builder is given the dispatcher's npts, None by default.  Two variants  *)
(* come first: dispatcher_unchecked_h leaves h out of the rectangular      *)
(* check, dispatcher_lenient takes any other mode for 'saddle'.            *)
dispatcher_unchecked_h(kw) ==
    IF kw.mode = "rectangular"
    THEN IF kw.a = None \/ kw.b = None
         THEN Raised("ValueError",
                     "Parameters 'a', 'b', and 'h' must be provided for rectangular mode.",
                     <<>>)
         ELSE IF kw.h = None
         THEN Raised("TypeError", "bad operand type for unary -: 'NoneType'", <<>>)
         ELSE Call("make_rectangular_dipole_corrector_fieldmesh", <<RectangularDefaults(kw)>>)
    ELSE Raised("ValueError", "Invalid mode. Choose either 'rectangular' or 'saddle'.", <<>>)
dispatcher_lenient(kw) ==
    IF kw.mode = "rectangular"
    THEN IF kw.a = None \/ kw.b = None \/ kw.h = None
         THEN Raised("ValueError",
                     "Parameters 'a', 'b', and 'h' must be provided for rectangular mode.",
                     <<>>)
         ELSE Call("make_rectangular_dipole_corrector_fieldmesh", <<RectangularDefaults(kw)>>)
    ELSE Then(SaddleDefaults(kw), LAMBDA kw2 :
         IF kw.R = None \/ kw.L = None \/ kw.theta = None
         THEN Raised("ValueError",
                     "Parameters 'R', 'L', and 'theta' must be provided for saddle mode.",
                     <<>>)
         ELSE Call("make_saddle_dipole_corrector_fieldmesh", <<kw2>>))
make_dipole_corrector_fieldmesh(kw) ==
    IF kw.mode = "rectangular"
    THEN IF kw.a = None \/ kw.b = None \/ kw.h = None
         THEN Raised("ValueError",
                     "Parameters 'a', 'b', and 'h' must be provided for rectangular mode.",
                     <<>>)
         ELSE Call("make_rectangular_dipole_corrector_fieldmesh", <<RectangularDefaults(kw)>>)
    ELSE IF kw.mode = "saddle"
    THEN Then(SaddleDefaults(kw), LAMBDA kw2 :
         IF kw.R = None \/ kw.L = None \/ kw.theta = None
         THEN Raised("ValueError",
                     "Parameters 'R', 'L', and 'theta' must be provided for saddle mode.",
                     <<>>)
         ELSE Call("make_saddle_dipole_corrector_fieldmesh", <<kw2>>))
    ELSE Raised("ValueError", "Invalid mode. Choose either 'rectangular' or 'saddle'.", <<>>)

(* The functions of the module, by name.                                   *)
Call(fn, args) ==
    CASE fn = "bfield_from_thin_straight_wire" ->
             bfield_from_thin_straight_wire(args[1], args[2], args[3], args[4], args[5],
                                            args[6], args[7], args[8])
      [] fn = "bfield_from_thin_rectangular_coil" ->
             bfield_from_thin_rectangular_coil(args[1], args[2], args[3], args[4],
                                               args[5], args[6], args[7], args[8])
      [] fn = "bfield_from_thin_rectangular_corrector" ->
             bfield_from_thin_rectangular_corrector(args[1], args[2], args[3], args[4],
                                                    args[5], args[6], args[7], args[8])
      [] fn = "bfield_from_thin_wire_arc" ->
             bfield_from_thin_wire_arc(args[1], args[2], args[3], args[4], args[5],
                                       args[6], args[7], args[8], args[9])
      [] fn = "bfield_from_thin_saddle_coil" ->
             bfield_from_thin_saddle_coil(args[1], args[2], args[3], args[4], args[5],
                                          args[6], args[7], args[8], args[9])
      [] fn = "bfield_from_thin_saddle_corrector" ->
             bfield_from_thin_saddle_corrector(args[1], args[2], args[3], args[4],
                                               args[5], args[6], args[7], args[8],
                                               args[9])
      [] fn = "make_rectangular_dipole_corrector_fieldmesh" ->
             make_rectangular_dipole_corrector_fieldmesh(args[1])
      [] fn = "make_saddle_dipole_corrector_fieldmesh" ->
             make_saddle_dipole_corrector_fieldmesh(args[1])
      [] fn = "make_thin_straight_wire_fieldmesh" ->
             make_thin_straight_wire_fieldmesh(args[1], args[2], args[3])
      [] fn = "make_dipole_corrector_fieldmesh" ->
             make_dipole_corrector_fieldmesh(args[1])

----------------------------------------------------------------------------
(* fieldmesh.py: the properties and methods of a FieldMesh.  self is the   *)
(* object: its attrs, its components (a name -> the id of the array        *)
(* stored under it), the arrays by id, and the instance __dict__ of alias  *)
(* bindings made by __init__.  Python looks a property or a method up on   *)
(* the object when it is used: Method(self, name, args).                   *)

RECURSIVE Method(_, _, _)

Bool(b) == [type |-> "bool", value |-> b]
Number(n) == [type |-> "number", value |-> n]
(* An array value: id is the stored array it is, 0 for a new array.        *)
ndarray(id, A) == [type |-> "ndarray", id |-> id, shape |-> A.shape, data |-> A.data]
ArrayAt(self, id) == ndarray(id, self.arrays[id])
(* The object a FieldMesh value is: the arrays of its components in the    *)
(* order of the registry.                                                  *)
RegisteredNames ==
    <<"electricField/x", "electricField/y", "electricField/z", "electricField/r",
      "electricField/theta", "magneticField/x", "magneticField/y", "magneticField/z",
      "magneticField/r", "magneticField/theta">>
NameId(k) == CHOOSE i \in DOMAIN RegisteredNames : RegisteredNames[i] = k
ObjectOf(mesh) ==
    [attrs |-> mesh.data.attrs,
     components |-> [k \in DOMAIN mesh.data.components |-> NameId(k)],
     arrays |-> [i \in {NameId(k) : k \in DOMAIN mesh.data.components} |->
                    mesh.data.components[RegisteredNames[i]]],
     dict |-> [a \in DOMAIN mesh.dict |-> NameId(component_from_alias[a])]]

(* np.any (False on None), np.abs, np.hypot and str.startswith.            *)
any(a) == a.type = "ndarray" /\ \E m \in DOMAIN a.data : a.data[m] # {}
RAbs(x) ==
    IF x = {} \/ IsNaN(x) THEN x
    ELSE IF (CHOOSE t \in x : IsMonomial(x))[2][1] < 0 THEN RNeg(x) ELSE x
abs(a) == ndarray(0, NDArray(a.shape, LAMBDA m : RAbs(a.data[m])))
hypot(a, b) ==
    ndarray(0, NDArray(a.shape,
                       LAMBDA m : RSqrt(RAdd(Square(a.data[m]), Square(b.data[m])))))
(* np.hypot of the values two lookups gave: a TypeError on None.          *)
Magnitude(a, b) ==
    IF a.type = "ndarray" /\ b.type = "ndarray"
    THEN Returned(hypot(a, b), <<>>)
    ELSE Raised("TypeError", "ufunc 'hypot' not supported for the input types", <<>>)
startswith(s, prefix) == Len(s) >= Len(prefix) /\ SubSeq(s, 1, Len(prefix)) = prefix

(* Lines 94-96.                                                            *)
geometry(self) == self.attrs.gridGeometry

(* self.Er, self.Ez: no class attribute has these names, so the instance   *)
(* __dict__ decides.                                                       *)
getattr(self, name) ==
    IF name \in DOMAIN self.dict
    THEN Returned(ArrayAt(self, self.dict[name]), <<>>)
    ELSE Raised("AttributeError", "'FieldMesh' object has no attribute '" \o name \o "'",
                <<>>)

(* Lines 90-92 and 162-170: shape, min, delta and max.                     *)
Vector(v) == [type |-> "vector", data |-> v]
shape(self) == Returned(Vector(self.attrs.gridSize), <<>>)
min(self) == Returned(Vector(self.attrs.gridOriginOffset), <<>>)
delta(self) == Returned(Vector(self.attrs.gridSpacing), <<>>)
max(self) ==
    Then(Method(self, "delta", <<>>), LAMBDA d :
    Then(Method(self, "min", <<>>), LAMBDA lo :
    Returned(Vector([i \in DOMAIN d.data |->
                        RAdd(RMul(d.data[i], Num(self.attrs.gridSize[i] - 1)),
                             lo.data[i])]), <<>>)))

(* Lines 27-30.                                                            *)
axis_labels_from_geometry ==
    [cartesian |-> <<"x", "y", "z">>, cylindrical |-> <<"r", "theta", "z">>]

(* Lines 118-123: a geometry that is no key of the dict raises KeyError.   *)
axis_labels(self) ==
    IF geometry(self) \in DOMAIN axis_labels_from_geometry
    THEN Returned([type |-> "tuple", items |-> axis_labels_from_geometry[geometry(self)]],
                  <<>>)
    ELSE Raised("KeyError", geometry(self), <<>>)

(* Lines 125-136: the index, from 0, of the first label equal to key.      *)
axis_index(self, key) ==
    Then(Method(self, "axis_labels", <<>>), LAMBDA labels :
    IF \E i \in DOMAIN labels.items : labels.items[i] = key
    THEN Returned(Number((CHOOSE i \in DOMAIN labels.items :
                            /\ labels.items[i] = key
                            /\ \A j \in DOMAIN labels.items :
                                  labels.items[j] = key => i <= j) - 1), <<>>)
    ELSE Raised("ValueError", "Axis not found: " \o key, <<>>))

(* Lines 138-150: np.linspace(min[i], max[i], shape[i]).                   *)
AxisVector(lo, hi, n, i) == linspace(lo.data[i], hi.data[i], n.data[i])
coord_vecs(self) ==
    Then(Method(self, "min", <<>>), LAMBDA lo :
    Then(Method(self, "max", <<>>), LAMBDA hi :
    Then(Method(self, "shape", <<>>), LAMBDA n :
    Returned([type |-> "list",
              items |-> [i \in DOMAIN n.data |-> Vector(AxisVector(lo, hi, n, i))]],
             <<>>))))
coord_vec(self, key) ==
    Then(Method(self, "axis_index", <<key>>), LAMBDA i :
    Then(Method(self, "min", <<>>), LAMBDA lo :
    Then(Method(self, "max", <<>>), LAMBDA hi :
    Then(Method(self, "shape", <<>>), LAMBDA n :
    Returned(Vector(AxisVector(lo, hi, n, i.value + 1)), <<>>)))))

(* Lines 199-201.                                                          *)
is_static_at_zero_frequency(self) ==
    Returned(Bool(self.attrs.harmonic * self.attrs.fundamentalFrequency = 0), <<>>)
is_static(self) == Returned(Bool(self.attrs.harmonic = 0), <<>>)

(* Lines 172-177.                                                          *)
frequency(self) ==
    Then(Method(self, "is_static", <<>>), LAMBDA static :
    IF static.value
    THEN Returned(Number(0), <<>>)
    ELSE Returned(Number(self.attrs.harmonic * self.attrs.fundamentalFrequency), <<>>))

(* Lines 205-210.                                                          *)
component_is_zero_at_first(self, key) ==
    Then(Method(self, "__getitem__", <<key>>), LAMBDA a :
    Returned(Bool(a.data[1] = {}), <<>>))
component_is_zero(self, key) ==
    Then(Method(self, "__getitem__", <<key>>), LAMBDA a :
    Returned(Bool(~any(a)), <<>>))

(* Lines 181-195: klist, the stored keys whose component is not zero       *)
(* (self[key] of a stored key returns), and all() over their prefixes.     *)
klist(self) ==
    {key \in DOMAIN self.components :
        ~Method(self, "component_is_zero", <<key>>).value.value}
is_pure_electric(self) ==
    Returned(Bool(\A key \in klist(self) : startswith(key, "electric")), <<>>)
is_pure_magnetic(self) ==
    Returned(Bool(\A key \in klist(self) : startswith(key, "magnetic")), <<>>)

(* Lines 215-220: a bare raise with no active exception is a RuntimeError. *)
(* B_any_geometry is the accessor without the test of the geometry.        *)
B_any_geometry(self) ==
    Then(Method(self, "__getitem__", <<"Br">>), LAMBDA Br :
    Then(Method(self, "__getitem__", <<"Bz">>), LAMBDA Bz :
    Magnitude(Br, Bz)))
B(self) ==
    IF geometry(self) = "cylindrical"
    THEN Then(Method(self, "__getitem__", <<"Br">>), LAMBDA Br :
         Then(Method(self, "__getitem__", <<"Bz">>), LAMBDA Bz :
         Magnitude(Br, Bz)))
    ELSE Raised("RuntimeError", "No active exception to reraise", <<>>)

(* Lines 225-230.                                                          *)
E(self) ==
    IF geometry(self) = "cylindrical"
    THEN Then(getattr(self, "Er"), LAMBDA Er :
         Then(getattr(self, "Ez"), LAMBDA Ez :
         Returned(hypot(abs(Er), abs(Ez)), <<>>)))
    ELSE Raised("RuntimeError", "No active exception to reraise", <<>>)

(* Lines 333-354.                                                          *)
getitem_or_none(self, key) ==
    IF key \in DOMAIN self.components
    THEN Returned(ArrayAt(self, self.components[key]), <<>>)
    ELSE IF /\ key \in DOMAIN component_from_alias
            /\ component_from_alias[key] \in DOMAIN self.components
    THEN Returned(ArrayAt(self, self.components[component_from_alias[key]]), <<>>)
    ELSE IF key = "E" THEN Method(self, "E", <<>>)
    ELSE IF key = "B" THEN Method(self, "B", <<>>)
    ELSE Returned(NoneValue, <<>>)
getitem_by_name_only(self, key) ==
    IF key \in DOMAIN self.components
    THEN Returned(ArrayAt(self, self.components[key]), <<>>)
    ELSE IF key = "E" THEN Method(self, "E", <<>>)
    ELSE IF key = "B" THEN Method(self, "B", <<>>)
    ELSE Raised("ValueError", "Key not available: " \o key, <<>>)
__getitem__(self, key) ==
    IF key \in DOMAIN self.components
    THEN Returned(ArrayAt(self, self.components[key]), <<>>)
    ELSE IF /\ key \in DOMAIN component_from_alias
            /\ component_from_alias[key] \in DOMAIN self.components
    THEN Returned(ArrayAt(self, self.components[component_from_alias[key]]), <<>>)
    ELSE IF key = "E" THEN Method(self, "E", <<>>)
    ELSE IF key = "B" THEN Method(self, "B", <<>>)
    ELSE Raised("ValueError", "Key not available: " \o key, <<>>)

Method(self, name, args) ==
    CASE name = "__getitem__" -> __getitem__(self, args[1])
      [] name = "component_is_zero" -> component_is_zero(self, args[1])
      [] name = "is_static" -> is_static(self)
      [] name = "frequency" -> frequency(self)
      [] name = "is_pure_electric" -> is_pure_electric(self)
      [] name = "is_pure_magnetic" -> is_pure_magnetic(self)
      [] name = "B" -> B(self)
      [] name = "E" -> E(self)
      [] name = "shape" -> shape(self)
      [] name = "axis_labels" -> axis_labels(self)
      [] name = "axis_index" -> axis_index(self, args[1])
      [] name = "coord_vecs" -> coord_vecs(self)
      [] name = "coord_vec" -> coord_vec(self, args[1])
      [] name = "min" -> min(self)
      [] name = "delta" -> delta(self)
      [] name = "max" -> max(self)

----------------------------------------------------------------------------
(* fieldmesh.py: load_field_data and the construction of a FieldMesh, on   *)
(* objects with an identity.  A file h5 has attrs and datasets by          *)
(* component name, each with its unitDimension and its array; an array has *)
(* a shape, a dtype and elements <<re, im>>.  The readers' helpers are     *)
(* taken to decode what the file holds: load_field_attrs the attributes,   *)
(* component_data the array.                                               *)

expected_record_unit_dimension ==
    [electricField |-> <<1, 1, -3, -1, 0, 0, 0>>,
     magneticField |-> <<0, 1, -2, -1, 0, 0, 0>>]
load_field_attrs(h5attrs) == h5attrs
component_data(dataset) == dataset.data
RecordOfName(name) ==
    CHOOSE g \in DOMAIN field_record_components :
        \E c \in Range(field_record_components[g]) : name = g \o "/" \o c
real(cdat) ==
    [shape |-> cdat.shape, dtype |-> "float64",
     data |-> [m \in DOMAIN cdat.data |-> <<cdat.data[m][1], 0>>]]

(* Lines 384-413, one component after the other in the registry's order:   *)
(* the unitDimension assert, the shape assert, np.real on a static field,  *)
(* the store.  LoadUncheckedShape is the loop without the shape assert.    *)
RECURSIVE LoadUncheckedShape(_, _, _, _)
LoadUncheckedShape(h5, ats, i, comps) ==
    IF i > Len(RegisteredNames)
    THEN Returned([type |-> "dict", attrs |-> ats, components |-> comps], <<>>)
    ELSE IF RegisteredNames[i] \notin DOMAIN h5.datasets
    THEN LoadUncheckedShape(h5, ats, i + 1, comps)
    ELSE IF h5.datasets[RegisteredNames[i]].unitDimension
               # expected_record_unit_dimension[RecordOfName(RegisteredNames[i])]
    THEN Raised("AssertionError", RegisteredNames[i] \o " with dimension expected", <<>>)
    ELSE LoadUncheckedShape(h5, ats, i + 1,
             comps @@ (RegisteredNames[i] :>
                 IF ats.harmonic = 0
                 THEN real(component_data(h5.datasets[RegisteredNames[i]]))
                 ELSE component_data(h5.datasets[RegisteredNames[i]])))
RECURSIVE LoadComponents(_, _, _, _)
LoadComponents(h5, ats, i, comps) ==
    IF i > Len(RegisteredNames)
    THEN Returned([type |-> "dict", attrs |-> ats, components |-> comps], <<>>)
    ELSE IF RegisteredNames[i] \notin DOMAIN h5.datasets
    THEN LoadComponents(h5, ats, i + 1, comps)
    ELSE IF h5.datasets[RegisteredNames[i]].unitDimension
               # expected_record_unit_dimension[RecordOfName(RegisteredNames[i])]
    THEN Raised("AssertionError", RegisteredNames[i] \o " with dimension expected", <<>>)
    ELSE IF ats.gridSize # component_data(h5.datasets[RegisteredNames[i]]).shape
    THEN Raised("AssertionError", "Expected shape != found shape", <<>>)
    ELSE LoadComponents(h5, ats, i + 1,
             comps @@ (RegisteredNames[i] :>
                 IF ats.harmonic = 0
                 THEN real(component_data(h5.datasets[RegisteredNames[i]]))
                 ELSE component_data(h5.datasets[RegisteredNames[i]])))

(* Lines 366-416.                                                          *)
load_field_data(h5) == LoadComponents(h5, load_field_attrs(h5.attrs), 1, <<>>)

(* Line 53: h5 is a str that names the file, or an open handle on it.      *)
isinstance_str(h5) == h5.kind = "str"

(* Lines 50-72 on a store of data dicts: store.attrs and store.components  *)
(* by the dict's id, store.arrays by the array's id.  With a file name the *)
(* loaded data is a new dict, LoadedId, with new arrays; with data the     *)
(* object keeps the caller's dict: _data is its id.  The aliases are bound *)
(* to the arrays of the components.  With an open handle nothing is       *)
(* loaded (line 62: pass) and data is what the caller gave, None when      *)
(* omitted: self.components then fails on self._data[...].                 *)
CallerId == "d"
LoadedId == "loaded"
LoadedArrayId(name) == Len(RegisteredNames) + NameId(name)
Bind(store, id) ==
    IF \E k \in DOMAIN store.components[id] : k \notin DOMAIN component_alias
    THEN Raised("KeyError", "component_alias", <<>>)
    ELSE Returned(
           [type |-> "FieldMesh",
            store |-> store,
            dict |-> ("_data" :> id) @@
                     [a \in {component_alias[k] : k \in DOMAIN store.components[id]} |->
                        store.components[id][component_from_alias[a]]]],
           <<"FieldMesh">>)
StoreLoaded(store, data) ==
    [attrs |-> store.attrs @@ (LoadedId :> data.attrs),
     components |-> store.components @@
        (LoadedId :> [k \in DOMAIN data.components |-> LoadedArrayId(k)]),
     arrays |-> store.arrays @@
        [i \in {LoadedArrayId(k) : k \in DOMAIN data.components} |->
            data.components[RegisteredNames[i - Len(RegisteredNames)]]]]
__init__(store, h5, data) ==
    IF h5 # None /\ isinstance_str(Val(h5))
    THEN Then(load_field_data(Val(h5)), LAMBDA loaded :
         Bind(StoreLoaded(store, loaded), LoadedId))
    ELSE IF data = None
    THEN Raised("TypeError", "'NoneType' object is not subscriptable", <<>>)
    ELSE Bind(store, Val(data))

(* The object: what self.attrs and self.components read through _data.     *)
ObjectIn(store, dict) ==
    [attrs |-> store.attrs[dict["_data"]],
     components |-> store.components[dict["_data"]],
     arrays |-> store.arrays,
     dict |-> dict]

(* Lines 98-116: scale and phase and their setters, writing into           *)
(* self.attrs; 2*pi is a whole turn.                                       *)
TwoPi == RMul(Num(2), pi)
scale(self) ==
    IF "fieldScale" \in DOMAIN self.attrs
    THEN Returned(Number(self.attrs.fieldScale), <<>>)
    ELSE Raised("KeyError", "fieldScale", <<>>)
phase(self) ==
    IF "RFphase" \in DOMAIN self.attrs
    THEN Returned(Number(RMul(RMul(self.attrs.RFphase, Num(2)), pi)), <<>>)
    ELSE Raised("KeyError", "RFphase", <<>>)
SetItem(d, key, val) == (key :> val) @@ d
scale_setter(self, val) == SetItem(self.attrs, "fieldScale", val)
phase_setter(self, val) == SetItem(self.attrs, "RFphase", RDiv(val, TwoPi))

(* Lines 235-238: the class has a property Br, self[key]*self.factor; no   *)
(* attribute factor exists.  A property of the class is found before the   *)
(* instance __dict__: mesh.Br is the property, every other alias the       *)
(* binding __init__ made.                                                  *)
Br(self) ==
    Then(Method(self, "__getitem__", <<component_from_alias["Br"]>>), LAMBDA a :
    Raised("AttributeError", "'FieldMesh' object has no attribute 'factor'", <<>>))
__getattribute__(self, name) ==
    IF name = "Br" THEN Br(self) ELSE getattr(self, name)

----------------------------------------------------------------------------
(* The calls of the field functions.  A behaviour is one call: the initial *)
(* state holds the function and its arguments in call, the function runs,  *)
(* and ret holds the outcome.                                              *)

MaxCoord == 1
MaxCurrent == 1
MaxSize == 2
MaxNpts == 3

Pending == [exc |-> "", msg |-> "", value |-> [type |-> "pending"], done |-> <<>>]
NoMesh == [type |-> "NoneType"]
HasReturned == ret.exc = "" /\ ret.value.type # "pending"
HasRaised == ret.exc # ""
Ended == ret # Pending

Coords == 0..MaxCoord
Points == {Vec(cx, cy, cz) : cx \in Coords, cy \in Coords, cz \in Coords}
Currents == {Num(i) : i \in -MaxCurrent..MaxCurrent}
Sizes == {Num(i) : i \in 0..MaxSize}
Halves == {Frac(i, 2) : i \in -1..1}
(* Opening angles -pi, 0, pi; discretization counts, None included.        *)
Thetas == {Num(-2), Num(0), Num(2)}
Counts == {None} \cup {Some(n) : n \in 0..MaxNpts}
(* The arcs whose points lie at whole quarter turns.                       *)
WholeArc(theta, npts) ==
    \/ npts = None
    \/ Val(npts) <= 1
    \/ \A i \in 0..(Val(npts) - 1) : IsWholeAngle(RMul(Frac(i, Val(npts) - 1), theta))

(* Observation grids of two points and of one.                             *)
Grid2 == meshgrid(<<Num(-1), Num(2)>>, <<Num(1)>>, <<Num(0)>>)
Grid1 == meshgrid(<<Num(0)>>, <<Num(0)>>, <<Num(2)>>)
GridOff == meshgrid(<<Frac(1, 2)>>, <<Num(1)>>, <<Frac(-1, 3)>>)

WireCalls ==
    [fn : {"bfield_from_thin_straight_wire"}, G : {Grid2, Grid1}, p1 : Points, p2 : Points,
     current : Currents, plot_wire : BOOLEAN, return_axes : BOOLEAN]
CoilCalls ==
    [fn : {"bfield_from_thin_rectangular_coil"}, G : {Grid2, GridOff}, a : Sizes, b : Sizes,
     y0 : Halves, current : Currents, plot_wire : BOOLEAN]
CorrectorCalls ==
    [fn : {"bfield_from_thin_rectangular_corrector"}, G : {Grid2, GridOff}, a : Sizes,
     b : Sizes, h : Sizes, current : Currents, plot_wire : BOOLEAN]
ArcCalls ==
    {c \in [fn : {"bfield_from_thin_wire_arc"}, G : {GridOff}, h : Halves, R : Sizes,
            theta : Thetas, npts : Counts, current : Currents, plot_wire : BOOLEAN] :
        WholeArc(c.theta, c.npts)}
SaddleCoilCalls ==
    {c \in [fn : {"bfield_from_thin_saddle_coil"}, G : {GridOff}, L : Sizes, R : Sizes,
            theta : Thetas, npts : Counts, current : Currents, plot_wire : BOOLEAN] :
        WholeArc(c.theta, c.npts)}
SaddleCorrectorCalls ==
    {c \in [fn : {"bfield_from_thin_saddle_corrector"}, G : {GridOff}, L : Sizes, R : Sizes,
            theta : Thetas, npts : Counts, current : Currents, plot_wire : BOOLEAN] :
        WholeArc(c.theta, c.npts)}

NoMeshObject ==
    attrs = NoMesh /\ components = NoMesh /\ arrays = NoMesh /\ aliases = NoMesh

(* Keyword arguments of the builders: shape parameters given or omitted,   *)
(* grid bounds given or left at None axis by axis, two points on the y and *)
(* z axes and one to MaxCount on the x axis (one or two for the            *)
(* correctors).                                                            *)
MaxCount == 3
Given == {None, Some(Num(MaxSize))}
Far == Num(MaxSize + 1)
Axis(given) == IF given THEN <<Some(RNeg(Far)), Some(Far)>> ELSE <<None, None>>
BoundChoices == {<<TRUE, TRUE, TRUE>>, <<FALSE, FALSE, FALSE>>, <<FALSE, FALSE, TRUE>>,
                 <<TRUE, TRUE, FALSE>>}
Modes == {"rectangular", "saddle", "cylindrical", "Rectangular"}
Keywords ==
    {[mode |-> m, current |-> Some(Num(1)),
      xmin |-> Axis(g[1])[1], xmax |-> Axis(g[1])[2], nx |-> nx,
      ymin |-> Axis(g[2])[1], ymax |-> Axis(g[2])[2], ny |-> Some(2),
      zmin |-> Axis(g[3])[1], zmax |-> Axis(g[3])[2], nz |-> Some(2),
      a |-> s[1], b |-> s[2], h |-> s[3], R |-> s[4], L |-> s[5], theta |-> s[6],
      npts |-> npts, plot_wire |-> plot_wire] :
        m \in Modes, g \in BoundChoices, nx \in {Some(n) : n \in 1..MaxCount},
        s \in Given \X Given \X Given \X Given \X Given \X {None, Some(pi)},
        npts \in {None, Some(2)}, plot_wire \in BOOLEAN}
(* With the rectangular defaults -0.99a .. 0.99a and -0.99h/2 .. 0.99h/2   *)
(* on the x and y axes the distances to the wires have radicals beyond     *)
(* TLC's integers: the rectangular corrector is computed on given x and y  *)
(* bounds.                                                                 *)
Computable(kw) ==
    \/ kw.mode # "rectangular"
    \/ kw.a = None \/ kw.b = None \/ kw.h = None
    \/ (kw.xmin # None /\ kw.ymin # None)
NoSaddle(kw) == kw.R = None /\ kw.L = None /\ kw.theta = None /\ kw.npts = None
NoRectangle(kw) == kw.a = None /\ kw.b = None /\ kw.h = None
RectangularBuilderCalls ==
    {[fn |-> "make_rectangular_dipole_corrector_fieldmesh", kw |-> kw] :
        kw \in {k \in Keywords : k.mode = "rectangular" /\ NoSaddle(k) /\ Val(k.nx) <= 2}}
SaddleBuilderCalls ==
    {[fn |-> "make_saddle_dipole_corrector_fieldmesh", kw |-> kw] :
        kw \in {k \in Keywords : k.mode = "saddle" /\ NoRectangle(k) /\ Val(k.nx) <= 2}}
WireBuilderCalls ==
    {[fn |-> "make_thin_straight_wire_fieldmesh", p1 |-> p1, p2 |-> p2, kw |-> kw] :
        p1 \in {Vec(0, 0, 0)}, p2 \in {Vec(0, 0, 0), Vec(0, 0, MaxCoord)},
        kw \in {k \in Keywords : k.mode = "rectangular" /\ NoSaddle(k) /\ NoRectangle(k)}}
DispatcherCalls ==
    {[fn |-> "make_dipole_corrector_fieldmesh", kw |-> kw] :
        kw \in {k \in Keywords : k.nx = Some(2) /\ Computable(k)}}

Return(fn, result) ==
    /\ call.fn = fn
    /\ ret = Pending
    /\ ret' = result
    /\ UNCHANGED <<call, attrs, components, arrays, aliases>>

CallStraightWire ==
    Return("bfield_from_thin_straight_wire",
           Call("bfield_from_thin_straight_wire",
                <<call.G[1], call.G[2], call.G[3], call.p1, call.p2, call.current, call.plot_wire, call.return_axes>>))
CallRectangularCoil ==
    Return("bfield_from_thin_rectangular_coil",
           Call("bfield_from_thin_rectangular_coil",
                <<call.G[1], call.G[2], call.G[3], call.a, call.b, call.y0, call.current, call.plot_wire>>))
CallRectangularCorrector ==
    Return("bfield_from_thin_rectangular_corrector",
           Call("bfield_from_thin_rectangular_corrector",
                <<call.G[1], call.G[2], call.G[3], call.a, call.b, call.h, call.current, call.plot_wire>>))
CallWireArc ==
    Return("bfield_from_thin_wire_arc",
           Call("bfield_from_thin_wire_arc",
                <<call.G[1], call.G[2], call.G[3], call.h, call.R, call.theta, call.npts, call.current, call.plot_wire>>))
CallSaddleCoil ==
    Return("bfield_from_thin_saddle_coil",
           Call("bfield_from_thin_saddle_coil",
                <<call.G[1], call.G[2], call.G[3], call.L, call.R, call.theta, call.current, call.npts, call.plot_wire>>))
CallRectangularBuilder ==
    Return("make_rectangular_dipole_corrector_fieldmesh",
           Call("make_rectangular_dipole_corrector_fieldmesh", <<call.kw>>))
CallSaddleBuilder ==
    Return("make_saddle_dipole_corrector_fieldmesh",
           Call("make_saddle_dipole_corrector_fieldmesh", <<call.kw>>))
CallWireBuilder ==
    Return("make_thin_straight_wire_fieldmesh",
           Call("make_thin_straight_wire_fieldmesh", <<call.p1, call.p2, call.kw>>))
CallDispatcher ==
    Return("make_dipole_corrector_fieldmesh",
           Call("make_dipole_corrector_fieldmesh", <<call.kw>>))
CallSaddleCorrector ==
    Return("bfield_from_thin_saddle_corrector",
           Call("bfield_from_thin_saddle_corrector",
                <<call.G[1], call.G[2], call.G[3], call.L, call.R, call.theta, call.current, call.npts, call.plot_wire>>))

(* The straight wire alone.                                                *)
InitWire == call \in WireCalls /\ ret = Pending /\ NoMeshObject
NextWire == CallStraightWire
SpecWire == InitWire /\ [][NextWire]_vars

(* The straight wire on one grid with one current, and the shapes built    *)
(* from it.                                                                *)
InitCoils ==
    /\ \/ call \in {c \in WireCalls : c.G = Grid2 /\ c.current = Num(1)}
       \/ call \in CoilCalls
       \/ call \in CorrectorCalls
       \/ call \in ArcCalls
       \/ call \in SaddleCoilCalls
       \/ call \in SaddleCorrectorCalls
    /\ ret = Pending
    /\ NoMeshObject
NextCoils ==
    \/ CallStraightWire
    \/ CallRectangularCoil
    \/ CallRectangularCorrector
    \/ CallWireArc
    \/ CallSaddleCoil
    \/ CallSaddleCorrector
SpecCoils == InitCoils /\ [][NextCoils]_vars

(* The mesh builders and the dispatcher.                                   *)
InitBuild ==
    /\ \/ call \in RectangularBuilderCalls
       \/ call \in SaddleBuilderCalls
       \/ call \in WireBuilderCalls
       \/ call \in DispatcherCalls
    /\ ret = Pending
    /\ NoMeshObject
NextBuild ==
    \/ CallRectangularBuilder
    \/ CallSaddleBuilder
    \/ CallWireBuilder
    \/ CallDispatcher
SpecBuild == InitBuild /\ [][NextBuild]_vars

----------------------------------------------------------------------------
(* The uses of a FieldMesh.  The initial state is the object after         *)
(* construction from data whose components are drawn from four registered  *)
(* names, each an array of two elements; a behaviour is one use.           *)

MaxValue == 1
MaxHarmonic == 2
MaxFrequency == 2

Pool == <<"electricField/r", "electricField/z", "magneticField/r", "magneticField/z">>
IdOf(k) == CHOOSE i \in 1..Len(Pool) : Pool[i] = k
Geometries == {"cylindrical", "rectangular"}
MeshShape == <<1, 1, 2>>
MeshArrays ==
    {[shape |-> MeshShape, data |-> d] :
        d \in [1..Size(MeshShape) -> {Num(i) : i \in 0..MaxValue}]}
Keys ==
    Range(Pool) \cup {"magneticField/theta", "Er", "Ez", "Br", "Bz", "Btheta",
                      "E", "B", "Bq", ""}
Properties == {"is_static", "frequency", "is_pure_electric", "is_pure_magnetic", "B", "E"}
TimingCalls == {[fn |-> p] : p \in {"is_static", "frequency"}}
MeshCalls ==
    {[fn |-> m, key |-> k] : m \in {"__getitem__", "component_is_zero"}, k \in Keys}
        \cup {[fn |-> p] : p \in Properties}

Self == [attrs |-> attrs, components |-> components, arrays |-> arrays, dict |-> aliases]

GetItem == Return("__getitem__", Method(Self, "__getitem__", <<call.key>>))
ComponentIsZero ==
    Return("component_is_zero", Method(Self, "component_is_zero", <<call.key>>))
IsStatic == Return("is_static", Method(Self, "is_static", <<>>))
Frequency == Return("frequency", Method(Self, "frequency", <<>>))
IsPureElectric == Return("is_pure_electric", Method(Self, "is_pure_electric", <<>>))
IsPureMagnetic == Return("is_pure_magnetic", Method(Self, "is_pure_magnetic", <<>>))
FieldB == Return("B", Method(Self, "B", <<>>))
FieldE == Return("E", Method(Self, "E", <<>>))

(* The timing properties read attrs alone: they are taken on the mesh      *)
(* without components for every harmonic and frequency, the other uses on  *)
(* static meshes.                                                          *)
InitMesh ==
    /\ \E stored \in SUBSET (1..Len(Pool)), g \in Geometries,
          hm \in 0..MaxHarmonic, f \in 0..MaxFrequency :
          \E heap \in [stored -> MeshArrays] :
             LET mesh == FieldMesh(
                           [attrs |-> [gridGeometry |-> g, harmonic |-> hm,
                                       fundamentalFrequency |-> f],
                            components |-> [k \in {Pool[i] : i \in stored} |-> IdOf(k)]]).value
             IN  /\ attrs = mesh.data.attrs
                 /\ components = mesh.data.components
                 /\ aliases = mesh.dict
                 /\ arrays = heap
                 /\ call \in (IF hm = 0 /\ f = 0 THEN MeshCalls
                              ELSE IF stored = {} THEN TimingCalls ELSE {})
    /\ ret = Pending
NextMesh ==
    \/ GetItem
    \/ ComponentIsZero
    \/ IsStatic
    \/ Frequency
    \/ IsPureElectric
    \/ IsPureMagnetic
    \/ FieldB
    \/ FieldE
SpecMesh == InitMesh /\ [][NextMesh]_vars

----------------------------------------------------------------------------
(* The grid accessors of a FieldMesh.  The initial state is a mesh as a    *)
(* builder returns it, or as FieldMesh(data=...) builds it from data with  *)
(* a geometry and a grid; call.on names where the mesh comes from.  A      *)
(* behaviour is one access.                                                *)

GivenBounds(kw) == kw.xmin # None /\ kw.ymin # None /\ kw.zmin # None
BuiltMeshes ==
    {[on |-> c.fn, mesh |-> Call(c.fn, <<c.p1, c.p2, c.kw>>)] :
        c \in {w \in WireBuilderCalls : GivenBounds(w.kw) /\ ~w.kw.plot_wire}}
    \cup {[on |-> c.fn, mesh |-> Call(c.fn, <<c.kw>>)] :
        c \in {b \in RectangularBuilderCalls \cup SaddleBuilderCalls :
                  /\ GivenBounds(b.kw) /\ ~b.kw.plot_wire
                  /\ \/ ~NoRectangle(b.kw)
                     \/ ~NoSaddle(b.kw)}}
GridData ==
    {[attrs |-> [gridGeometry |-> g,
                 gridOriginOffset |-> <<Num(-1), {}, {}>>,
                 gridSpacing |-> <<Frac(1, 2), Num(1), Num(2)>>,
                 gridSize |-> <<n, 1, 2>>,
                 harmonic |-> 0, fundamentalFrequency |-> 0],
      components |-> [k \in {"magneticField/z"} |-> zeros(<<n, 1, 2>>)]] :
        g \in {"cartesian", "cylindrical", "rectangular"}, n \in 1..MaxCount}
DataMeshes == {[on |-> "FieldMesh", mesh |-> FieldMesh(d)] : d \in GridData}
AxisKeys == {"x", "y", "z", "r", "theta", "q"}
GridCalls(on) ==
    {[fn |-> f, on |-> on] :
        f \in {"axis_labels", "coord_vecs", "shape", "min", "delta", "max"}}
    \cup {[fn |-> f, key |-> k, on |-> on] : f \in {"axis_index", "coord_vec"}, k \in AxisKeys}

AxisLabels == Return("axis_labels", Method(Self, "axis_labels", <<>>))
AxisIndex == Return("axis_index", Method(Self, "axis_index", <<call.key>>))
CoordVecs == Return("coord_vecs", Method(Self, "coord_vecs", <<>>))
CoordVec == Return("coord_vec", Method(Self, "coord_vec", <<call.key>>))
Shape == Return("shape", Method(Self, "shape", <<>>))
Min == Return("min", Method(Self, "min", <<>>))
Delta == Return("delta", Method(Self, "delta", <<>>))
Max == Return("max", Method(Self, "max", <<>>))

HoldsObject(obj) ==
    /\ attrs = obj.attrs
    /\ components = obj.components
    /\ arrays = obj.arrays
    /\ aliases = obj.dict
InitGrid ==
    /\ \E b \in BuiltMeshes \cup DataMeshes :
          /\ b.mesh.exc = ""
          /\ HoldsObject(ObjectOf(b.mesh.value))
          /\ call \in GridCalls(b.on)
    /\ ret = Pending
NextGrid ==
    \/ AxisLabels
    \/ AxisIndex
    \/ CoordVecs
    \/ CoordVec
    \/ Shape
    \/ Min
    \/ Delta
    \/ Max
SpecGrid == InitGrid /\ [][NextGrid]_vars

----------------------------------------------------------------------------
(* Construction and what follows it: FieldMesh(data=d) on a dict the       *)
(* caller keeps, FieldMesh(h5=file) and load_field_data(file) on a file,   *)
(* then the properties and setters of the object and the caller's own      *)
(* writes to d.  attrs and components are here the store of dicts by id,   *)
(* arrays the arrays by id, aliases the instance __dict__ (empty before    *)
(* __init__ has run); call and ret are the last operation and its outcome. *)

GridSizes == {<<1, 1, 1>>, <<1, 1, 2>>}
Dtypes == {"float64", "complex128"}
StoredArray(s, dtype) ==
    [shape |-> s, dtype |-> dtype,
     data |-> [m \in 1..(s[1] * s[2] * s[3]) |->
                  <<MaxValue, IF dtype = "complex128" THEN MaxValue ELSE 0>>]]
StoredArrays == {StoredArray(s, t) : s \in GridSizes, t \in Dtypes}
DataNames == {"electricField/z", "magneticField/z"}
DataAttrs ==
    {[gridGeometry |-> "cylindrical", gridSize |-> s, harmonic |-> n,
      fundamentalFrequency |-> MaxFrequency,
      gridOriginOffset |-> Vec(0, 0, 0),
      gridSpacing |-> Vec(1, 1, 1),
      fieldScale |-> Num(1), RFphase |-> Num(0)] :
        s \in GridSizes, n \in 0..1}
DataDicts ==
    {[attrs |-> a, components |-> c] :
        a \in DataAttrs,
        c \in UNION {[S -> StoredArrays] : S \in SUBSET DataNames}}
UnitDimensions ==
    {expected_record_unit_dimension.electricField,
     expected_record_unit_dimension.magneticField}
Files ==
    {[kind |-> kind, attrs |-> a, datasets |-> c] :
        kind \in {"str", "handle"},
        a \in DataAttrs,
        c \in UNION {[S -> [unitDimension : UnitDimensions, data : StoredArrays]] :
                        S \in SUBSET DataNames}}
Scales == {Num(1), Num(2)}
Phases == {Num(0), Half(pi)}
Harmonics == 0..1

NoObject == <<>>
Constructed == "_data" \in DOMAIN aliases
Store == [attrs |-> attrs, components |-> components, arrays |-> arrays]
StoreOf(d) ==
    [attrs |-> (CallerId :> d.attrs),
     components |-> (CallerId :> [k \in DOMAIN d.components |-> NameId(k)]),
     arrays |-> [i \in {NameId(k) : k \in DOMAIN d.components} |->
                    d.components[RegisteredNames[i]]]]
EmptyStore == [attrs |-> <<>>, components |-> <<>>, arrays |-> <<>>]
Object == ObjectIn(Store, aliases)

(* FieldMesh(h5=..., data=...).                                            *)
Construct ==
    /\ call.fn = "FieldMesh"
    /\ ret = Pending
    /\ ret' = [__init__(Store, call.h5, call.data) EXCEPT
                  !.value = IF @.type = "FieldMesh" THEN [type |-> "FieldMesh"] ELSE @]
    /\ attrs' = IF __init__(Store, call.h5, call.data).exc = ""
                THEN __init__(Store, call.h5, call.data).value.store.attrs ELSE attrs
    /\ components' = IF __init__(Store, call.h5, call.data).exc = ""
                     THEN __init__(Store, call.h5, call.data).value.store.components
                     ELSE components
    /\ arrays' = IF __init__(Store, call.h5, call.data).exc = ""
                 THEN __init__(Store, call.h5, call.data).value.store.arrays ELSE arrays
    /\ aliases' = IF __init__(Store, call.h5, call.data).exc = ""
                  THEN __init__(Store, call.h5, call.data).value.dict ELSE aliases
    /\ UNCHANGED call

(* load_field_data(h5) called on its own.                                  *)
LoadFieldData ==
    /\ call.fn = "load_field_data"
    /\ ret = Pending
    /\ ret' = load_field_data(Val(call.h5))
    /\ UNCHANGED <<call, attrs, components, arrays, aliases>>

(* The properties of a constructed object.                                 *)
Reads(fn, result) ==
    /\ Constructed
    /\ Ended
    /\ call' = [fn |-> fn]
    /\ ret' = result
    /\ UNCHANGED <<attrs, components, arrays, aliases>>
GetScale == Reads("scale", scale(Object))
GetPhase == Reads("phase", phase(Object))
GetShape == Reads("shape", Method(Object, "shape", <<>>))
GetIsStatic == Reads("is_static", Method(Object, "is_static", <<>>))

(* mesh.scale = val and mesh.phase = val.                                  *)
Writes(fn, key, val, written) ==
    /\ Constructed
    /\ Ended
    /\ call' = [fn |-> fn, val |-> val, old |-> attrs[aliases["_data"]][key]]
    /\ attrs' = [attrs EXCEPT ![aliases["_data"]] = written]
    /\ ret' = Returned(NoneValue, <<>>)
    /\ UNCHANGED <<components, arrays, aliases>>
SetScale == \E val \in Scales : Writes("scale.setter", "fieldScale", val,
                                scale_setter(Object, val))
SetPhase == \E val \in Phases : Writes("phase.setter", "RFphase", val,
                                phase_setter(Object, val))

(* The caller of FieldMesh(data=d), after it returned: d['attrs'][         *)
(* 'harmonic'] = n and del d['components'][name].                          *)
CallerSetsHarmonic ==
    \E n \in Harmonics :
        /\ Constructed
        /\ Ended
        /\ CallerId \in DOMAIN attrs
        /\ call' = [fn |-> "d['attrs']['harmonic'] = n", old |-> attrs[CallerId].harmonic]
        /\ attrs' = [attrs EXCEPT ![CallerId] = SetItem(@, "harmonic", n)]
        /\ ret' = Returned(NoneValue, <<>>)
        /\ UNCHANGED <<components, arrays, aliases>>
CallerDeletesComponent ==
    \E name \in DataNames :
        /\ Constructed
        /\ Ended
        /\ CallerId \in DOMAIN components
        /\ name \in DOMAIN components[CallerId]
        /\ call' = [fn |-> "del d['components'][name]", old |-> name]
        /\ components' = [components EXCEPT ![CallerId] =
                             [k \in DOMAIN @ \ {name} |-> @[k]]]
        /\ ret' = Returned(NoneValue, <<>>)
        /\ UNCHANGED <<attrs, arrays, aliases>>

InitData ==
    /\ ret = Pending
    /\ aliases = NoObject
    /\ \/ \E d \in DataDicts :
             /\ call = [fn |-> "FieldMesh", h5 |-> None, data |-> Some(CallerId)]
             /\ attrs = StoreOf(d).attrs
             /\ components = StoreOf(d).components
             /\ arrays = StoreOf(d).arrays
       \/ \E file \in Files, fn \in {"FieldMesh", "load_field_data"} :
             /\ fn = "load_field_data" => file.kind = "handle"
             /\ call = [fn |-> fn, h5 |-> Some(file), data |-> None]
             /\ attrs = EmptyStore.attrs
             /\ components = EmptyStore.components
             /\ arrays = EmptyStore.arrays
NextData ==
    \/ Construct
    \/ LoadFieldData
    \/ GetScale
    \/ GetPhase
    \/ GetShape
    \/ GetIsStatic
    \/ SetScale
    \/ SetPhase
    \/ CallerSetsHarmonic
    \/ CallerDeletesComponent
SpecData == InitData /\ [][NextData]_vars

----------------------------------------------------------------------------
(* The aliases of a constructed FieldMesh under its caller's operations:   *)
(* reads of mesh.a and mesh[a], writes into the array behind an alias      *)
(* (mesh.a[:] = 0) and the replacement of a stored array                   *)
(* (mesh.components[k] = A, a new array).  The initial state is the object *)
(* after construction; call and ret are the last operation and its         *)
(* outcome.                                                                *)

AliasPool == {"electricField/z", "magneticField/r", "magneticField/z"}
AliasNames == {component_alias[k] : k \in AliasPool}
Filled(value) == [shape |-> MeshShape, data |-> [m \in 1..Size(MeshShape) |-> value]]
(* The id of the array that replaces the one stored under k.               *)
NewId(k) == Len(Pool) + IdOf(k)

ReadAttribute ==
    \E a \in AliasNames :
        /\ call' = [fn |-> "getattr", key |-> a]
        /\ ret' = __getattribute__(Self, a)
        /\ UNCHANGED <<attrs, components, arrays, aliases>>
Lookup ==
    \E a \in AliasNames :
        /\ call' = [fn |-> "__getitem__", key |-> a]
        /\ ret' = Method(Self, "__getitem__", <<a>>)
        /\ UNCHANGED <<attrs, components, arrays, aliases>>
WriteThroughAlias ==
    \E a \in AliasNames :
        /\ call' = [fn |-> "mesh.a[:] = 0", key |-> a]
        /\ ret' = Then(__getattribute__(Self, a), LAMBDA A : Returned(NoneValue, <<>>))
        /\ arrays' = IF __getattribute__(Self, a).exc = ""
                     THEN [arrays EXCEPT ![__getattribute__(Self, a).value.id] =
                              Filled(Num(0))]
                     ELSE arrays
        /\ UNCHANGED <<attrs, components, aliases>>
ReplaceComponent ==
    \E k \in DOMAIN components :
        /\ call' = [fn |-> "mesh.components[k] = A", key |-> k]
        /\ ret' = Returned(NoneValue, <<>>)
        /\ components' = [components EXCEPT ![k] = NewId(k)]
        /\ arrays' = (NewId(k) :> Filled(Num(MaxValue))) @@ arrays
        /\ UNCHANGED <<attrs, aliases>>

InitAlias ==
    /\ \E stored \in SUBSET AliasPool :
          LET mesh == FieldMesh(
                        [attrs |-> [gridGeometry |-> "cylindrical", harmonic |-> 0,
                                    fundamentalFrequency |-> 0],
                         components |-> [k \in stored |-> IdOf(k)]]).value
          IN  /\ attrs = mesh.data.attrs
              /\ components = mesh.data.components
              /\ aliases = mesh.dict
              /\ arrays = [i \in {IdOf(k) : k \in stored} |-> Filled(Num(MaxValue))]
    /\ call = [fn |-> "FieldMesh"]
    /\ ret = Returned([type |-> "FieldMesh"], <<>>)
NextAlias ==
    \/ ReadAttribute
    \/ Lookup
    \/ WriteThroughAlias
    \/ ReplaceComponent
SpecAlias == InitAlias /\ [][NextAlias]_vars

----------------------------------------------------------------------------
(* The properties checked.                                                 *)

Degenerate(c) ==
    \/ c.fn = "bfield_from_thin_straight_wire" /\ c.p1 = c.p2
    \/ c.fn = "bfield_from_thin_rectangular_coil" /\ (c.a = {} \/ c.b = {})
    \/ c.fn = "bfield_from_thin_wire_arc" /\ c.theta = {} /\ c.npts # None
          /\ Val(c.npts) >= 2
    \/ c.fn = "bfield_from_thin_saddle_coil" /\ c.L = {}

(* C1: the straight wire called with p1 = p2 raises before any field is    *)
(* computed or plot made and returns no arrays; a rectangular coil with    *)
(* a = 0 or b = 0, an arc with theta = 0 and npts >= 2 and a saddle coil   *)
(* with L = 0 raise too.                                                   *)
C1_DegenerateSegmentFails ==
    (Ended /\ Degenerate(call)) =>
        /\ HasRaised
        /\ ret.value = NoneValue
        /\ call.fn = "bfield_from_thin_straight_wire" =>
              ret.exc = "AssertionError" /\ ret.done = <<>>
C1_Witness ==
    /\ call.fn = "bfield_from_thin_rectangular_coil"
    /\ call.a = {} /\ call.b # {}
    /\ ret.exc = "AssertionError"

(* C9: the rectangular corrector returns the elementwise sum of the coil   *)
(* at y0 = -h/2 and the coil at y0 = +h/2, the saddle corrector the sum of *)
(* the coil (+L, +R) and the coil (-L, -R), each coil taking the           *)
(* corrector's grid, current and discretization.                           *)
C9_CorrectorIsSumOfCoils ==
    /\ (call.fn = "bfield_from_thin_rectangular_corrector" /\ HasReturned) =>
          ret.value =
             Tuple3Add(
                Call("bfield_from_thin_rectangular_coil",
                     <<call.G[1], call.G[2], call.G[3], call.a, call.b,
                       RMul(Frac(-1, 2), call.h), call.current, FALSE>>).value,
                Call("bfield_from_thin_rectangular_coil",
                     <<call.G[1], call.G[2], call.G[3], call.a, call.b,
                       RMul(Frac(1, 2), call.h), call.current, FALSE>>).value)
    /\ (call.fn = "bfield_from_thin_saddle_corrector" /\ HasReturned) =>
          ret.value =
             Tuple3Add(
                Call("bfield_from_thin_saddle_coil",
                     <<call.G[1], call.G[2], call.G[3], call.L, call.R, call.theta,
                       call.current, call.npts, FALSE>>).value,
                Call("bfield_from_thin_saddle_coil",
                     <<call.G[1], call.G[2], call.G[3], RNeg(call.L), RNeg(call.R),
                       call.theta, call.current, call.npts, FALSE>>).value)
C9_Witness ==
    /\ call.fn = "bfield_from_thin_rectangular_corrector"
    /\ HasReturned
    /\ call.h # {}
    /\ \E i \in 1..3 : \E m \in DOMAIN ret.value.items[i].data :
          ret.value.items[i].data[m] \notin {{}, NaN}

(* C10: for p1 # p2 and every point of the grid off the wire's line, the   *)
(* wire (p1, p2, I) and the wire (p2, p1, -I) have the same field.         *)
OffLine(m) ==
    Cross(VSub(<<call.G[1].data[m], call.G[2].data[m], call.G[3].data[m]>>, call.p1),
          VSub(call.p2, call.p1)) # <<{}, {}, {}>>
SameOffLine(F, Fswapped) ==
    \A m \in 1..Size(call.G[1].shape) :
        OffLine(m) => \A i \in 1..3 : F.items[i].data[m] = Fswapped.items[i].data[m]
C10_ReversalSymmetry ==
    (/\ call.fn = "bfield_from_thin_straight_wire"
     /\ call.p1 # call.p2
     /\ HasReturned
     /\ ret.value.type = "tuple") =>
        SameOffLine(ret.value,
                    Call("bfield_from_thin_straight_wire",
                         <<call.G[1], call.G[2], call.G[3], call.p2, call.p1,
                           RNeg(call.current), FALSE, FALSE>>).value)
C10_Witness ==
    /\ call.fn = "bfield_from_thin_straight_wire"
    /\ call.p1 # call.p2
    /\ HasReturned
    /\ ret.value.type = "tuple"
    /\ \E m \in 1..Size(call.G[1].shape) :
          OffLine(m) /\ \E i \in 1..3 : ret.value.items[i].data[m] \notin {{}, NaN}

Contains(s, sub) ==
    \E i \in 1..(Len(s) - Len(sub) + 1) : SubSeq(s, i, i + Len(sub) - 1) = sub
Quoted(name) == "'" \o name \o "'"
NamesMissing(msg, kw, names) ==
    \A p \in names : kw[p] = None => Contains(msg, Quoted(p))
DispatcherEnded == call.fn = "make_dipole_corrector_fieldmesh" /\ Ended

(* C2: the dispatcher in mode 'rectangular' with a, b or h omitted raises  *)
(* ValueError, with a message that quotes every omitted parameter, before  *)
(* any grid, field or FieldMesh is built, whatever the other arguments.    *)
C2_RectangularMissingParameter ==
    (/\ DispatcherEnded
     /\ call.kw.mode = "rectangular"
     /\ (call.kw.a = None \/ call.kw.b = None \/ call.kw.h = None)) =>
        /\ ret.exc = "ValueError"
        /\ ret.done = <<>>
        /\ ret.value = NoneValue
        /\ NamesMissing(ret.msg, call.kw, {"a", "b", "h"})
C2_Witness ==
    /\ DispatcherEnded
    /\ call.kw.mode = "rectangular"
    /\ call.kw.a # None /\ call.kw.b # None /\ call.kw.h = None
    /\ call.kw.xmin = None
    /\ ret.exc = "ValueError"
    /\ Contains(ret.msg, "'h'")

(* C3: the dispatcher in mode 'saddle' with R, L or theta omitted raises   *)
(* ValueError with a message that quotes every omitted parameter, whether  *)
(* the grid bounds are given or left at their defaults.                    *)
C3_SaddleMissingParameter ==
    (/\ DispatcherEnded
     /\ call.kw.mode = "saddle"
     /\ (call.kw.R = None \/ call.kw.L = None \/ call.kw.theta = None)) =>
        /\ ret.exc = "ValueError"
        /\ NamesMissing(ret.msg, call.kw, {"R", "L", "theta"})
(* What the code does: with R omitted and an x or y bound left at None,    *)
(* or L omitted and a z bound left at None, the default bound raises       *)
(* TypeError first.                                                        *)
C3_DefaultBoundsRaiseFirst ==
    /\ DispatcherEnded
    /\ call.kw.mode = "saddle"
    /\ call.kw.R = None
    /\ call.kw.xmin = None
    /\ ret.exc = "TypeError"

(* C4: the dispatcher called with a mode other than 'rectangular' and      *)
(* 'saddle' raises ValueError and builds no FieldMesh, whatever the other  *)
(* arguments.                                                              *)
C4_InvalidMode ==
    (DispatcherEnded /\ call.kw.mode \notin {"rectangular", "saddle"}) =>
        /\ ret.exc = "ValueError"
        /\ ret.value = NoneValue
        /\ "FieldMesh" \notin Range(ret.done)
C4_Witness ==
    /\ DispatcherEnded
    /\ call.kw.mode = "Rectangular"
    /\ call.kw.a # None /\ call.kw.b # None /\ call.kw.h # None
    /\ call.kw.xmin # None
    /\ ret.exc = "ValueError"

StoredName(key) == key \in DOMAIN components
StoredAlias(key) ==
    key \in DOMAIN component_from_alias /\ component_from_alias[key] \in DOMAIN components
MagnitudeAvailable(key) ==
    /\ attrs.gridGeometry = "cylindrical"
    /\ \/ key = "B" /\ {"magneticField/r", "magneticField/z"} \subseteq DOMAIN components
       \/ key = "E" /\ {"electricField/r", "electricField/z"} \subseteq DOMAIN components
GetItemEnded == call.fn = "__getitem__" /\ Ended

(* C5: mesh[key] with a key that is neither a stored component's name nor  *)
(* the alias of a stored component, and is not 'E' or 'B' with the         *)
(* magnitude available, raises: it returns nothing.                        *)
C5_UnknownKeyRaises ==
    (/\ GetItemEnded
     /\ ~StoredName(call.key)
     /\ ~StoredAlias(call.key)
     /\ ~MagnitudeAvailable(call.key)) =>
        HasRaised /\ ret.value = NoneValue
C5_Witness ==
    /\ GetItemEnded
    /\ call.key = "Bz"
    /\ "magneticField/r" \in DOMAIN components
    /\ "magneticField/z" \notin DOMAIN components
    /\ ret.exc = "ValueError"

(* C6: for a stored component k with alias a, mesh[k] and mesh[a] return   *)
(* the array object held in components[k], with its contents.              *)
C6_LookupReturnsStoredArray ==
    \A k \in DOMAIN components :
        (GetItemEnded /\ call.key \in {k, component_alias[k]}) =>
            /\ HasReturned
            /\ ret.value.type = "ndarray"
            /\ ret.value.id = components[k]
            /\ ret.value.data = arrays[components[k]].data
C6_Witness ==
    /\ GetItemEnded
    /\ call.key = "Ez"
    /\ DOMAIN components = {"electricField/r", "electricField/z"}
    /\ arrays[components["electricField/r"]] = arrays[components["electricField/z"]]
    /\ HasReturned
    /\ ret.value.id = components["electricField/z"]

(* C7: is_static is true exactly when attrs['harmonic'] is 0; frequency is *)
(* 0 on a static mesh and harmonic * fundamentalFrequency otherwise.       *)
C7_StaticAndFrequency ==
    /\ (call.fn = "is_static" /\ Ended) =>
          HasReturned /\ ret.value = Bool(attrs.harmonic = 0)
    /\ (call.fn = "frequency" /\ Ended) =>
          /\ HasReturned
          /\ attrs.harmonic = 0 => ret.value = Number(0)
          /\ attrs.harmonic # 0 =>
                ret.value = Number(attrs.harmonic * attrs.fundamentalFrequency)
C7_Witness ==
    /\ call.fn = "frequency"
    /\ attrs.harmonic = 2 /\ attrs.fundamentalFrequency = 1
    /\ HasReturned
    /\ ret.value = Number(2)

(* C8: is_pure_magnetic is true exactly when every stored component with a *)
(* nonzero element has a name of the magnetic record, is_pure_electric     *)
(* exactly when each has a name of the electric record.                    *)
NonZero(k) == \E m \in DOMAIN arrays[components[k]].data : arrays[components[k]].data[m] # {}
OfRecord(k, record) ==
    \E c \in Range(field_record_components[record]) : k = record \o "/" \o c
C8_Purity ==
    /\ (call.fn = "is_pure_magnetic" /\ Ended) =>
          /\ HasReturned
          /\ ret.value.value =
                (\A k \in DOMAIN components : NonZero(k) => OfRecord(k, "magneticField"))
    /\ (call.fn = "is_pure_electric" /\ Ended) =>
          /\ HasReturned
          /\ ret.value.value =
                (\A k \in DOMAIN components : NonZero(k) => OfRecord(k, "electricField"))
C8_Witness ==
    /\ call.fn = "is_pure_magnetic"
    /\ DOMAIN components = {"electricField/z", "magneticField/z"}
    /\ ~NonZero("electricField/z")
    /\ NonZero("magneticField/z")
    /\ HasReturned
    /\ ret.value = Bool(TRUE)

MagnitudeEnded(name) ==
    /\ Ended
    /\ \/ call.fn = name
       \/ call.fn = "__getitem__" /\ call.key = name /\ ~StoredName(name)
IsHypot(v, r, z) ==
    /\ v.type = "ndarray"
    /\ v.id = 0
    /\ v.shape = arrays[components[r]].shape
    /\ \A m \in DOMAIN v.data :
          /\ Square(v.data[m]) = RAdd(Square(arrays[components[r]].data[m]),
                                      Square(arrays[components[z]].data[m]))
          /\ RAbs(v.data[m]) = v.data[m]

(* C19: mesh.B and mesh['B'] return hypot(Br, Bz) of the stored components *)
(* when the geometry is 'cylindrical' and raise, returning nothing, for    *)
(* every other geometry; mesh.E and mesh['E'] likewise with Er and Ez.     *)
C19_MagnitudeOnlyCylindrical ==
    /\ MagnitudeEnded("B") =>
          IF attrs.gridGeometry = "cylindrical"
          THEN HasReturned => IsHypot(ret.value, "magneticField/r", "magneticField/z")
          ELSE HasRaised /\ ret.value = NoneValue
    /\ MagnitudeEnded("E") =>
          IF attrs.gridGeometry = "cylindrical"
          THEN HasReturned => IsHypot(ret.value, "electricField/r", "electricField/z")
          ELSE HasRaised /\ ret.value = NoneValue
C19_Witness ==
    /\ call.fn = "__getitem__" /\ call.key = "B"
    /\ attrs.gridGeometry = "rectangular"
    /\ {"magneticField/r", "magneticField/z"} \subseteq DOMAIN components
    /\ ret.exc = "RuntimeError"

(* C20: a call of the straight wire with p1 # p2 returns the triple        *)
(* (Bx, By, Bz), each of the shape of the coordinate arrays, whatever the  *)
(* flags plot_wire and return_axes.                                        *)
C20_WireReturnsTriple ==
    (/\ call.fn = "bfield_from_thin_straight_wire"
     /\ call.p1 # call.p2
     /\ Ended) =>
        /\ HasReturned
        /\ ret.value.type = "tuple"
        /\ \A i \in 1..3 : ret.value.items[i].shape = call.G[1].shape
(* What the code does with both flags set: the triple is built and         *)
(* dropped, and the call returns None.                                     *)
C20_BothFlagsReturnNone ==
    /\ call.fn = "bfield_from_thin_straight_wire"
    /\ call.p1 # call.p2
    /\ call.plot_wire /\ call.return_axes
    /\ HasReturned
    /\ ret.value = NoneValue

Builders ==
    {"make_rectangular_dipole_corrector_fieldmesh",
     "make_saddle_dipole_corrector_fieldmesh", "make_thin_straight_wire_fieldmesh"}
BuilderReturned == call.fn \in Builders /\ HasReturned
Minima(kw) == <<Val(kw.xmin), Val(kw.ymin), Val(kw.zmin)>>
Maxima(kw) == <<Val(kw.xmax), Val(kw.ymax), Val(kw.zmax)>>
CountsOf(kw) == <<Val(kw.nx), Val(kw.ny), Val(kw.nz)>>

C12_SpacingRoundTrip ==
    /\ BuilderReturned =>
          /\ \A i \in 1..3 :
                ret.value.data.attrs.gridSpacing[i] =
                   RDiv(RSub(Maxima(call.kw)[i], Minima(call.kw)[i]),
                        Num(CountsOf(call.kw)[i] - 1))
          /\ Method(ObjectOf(ret.value), "min", <<>>).value.data = Minima(call.kw)
          /\ Method(ObjectOf(ret.value), "max", <<>>).value.data = Maxima(call.kw)
    /\ (/\ call.fn = "make_thin_straight_wire_fieldmesh"
        /\ Ended
        /\ call.p1 # call.p2
        /\ call.kw.xmin # None /\ call.kw.ymin # None /\ call.kw.zmin # None
        /\ Val(call.kw.nx) >= 2) => HasReturned
C12_Witness ==
    /\ call.fn = "make_thin_straight_wire_fieldmesh"
    /\ HasReturned
    /\ call.kw.nx = Some(3)
    /\ ret.value.data.attrs.gridSpacing[1] = Far

OnBuilderMesh(names) == call.on \in Builders /\ call.fn \in names /\ Ended

(* C13: on a mesh returned by a builder, axis_labels, axis_index(k) and    *)
(* coord_vec(k) for k in x, y, z return: coord_vec(k) has gridSize[k]      *)
(* elements, the first min[k] and the last max[k].                         *)
C13_BuilderMeshAccessors ==
    /\ OnBuilderMesh({"axis_labels"}) => HasReturned
    /\ (OnBuilderMesh({"axis_index", "coord_vec"}) /\ call.key \in {"x", "y", "z"}) =>
          HasReturned
    /\ \A i \in 1..3 :
          (OnBuilderMesh({"coord_vec"}) /\ call.key = <<"x", "y", "z">>[i]) =>
              /\ HasReturned
              /\ Len(ret.value.data) = attrs.gridSize[i]
              /\ ret.value.data[1] = Method(Self, "min", <<>>).value.data[i]
              /\ ret.value.data[Len(ret.value.data)] =
                    Method(Self, "max", <<>>).value.data[i]
(* What the code does: the builders tag the mesh 'rectangular', which is   *)
(* no key of axis_labels_from_geometry.                                    *)
C13_BuilderGeometryUnknown ==
    /\ call.on = "make_rectangular_dipole_corrector_fieldmesh"
    /\ call.fn = "coord_vec" /\ call.key = "x"
    /\ attrs.gridGeometry = "rectangular"
    /\ ret.exc = "KeyError"


(* C14: in every FieldMesh, however constructed, every stored component    *)
(* array has exactly the shape recorded in attrs['gridSize']; a            *)
(* construction that would violate this is rejected.                       *)
StoredShapes == {arrays[Object.components[k]].shape : k \in DOMAIN Object.components}
C14_ShapesMatchGridSize ==
    (call.fn = "FieldMesh" /\ HasReturned) => StoredShapes \subseteq {Object.attrs.gridSize}
C14_MismatchedShapeAccepted ==
    /\ call.fn = "FieldMesh" /\ call.data # None /\ HasReturned
    /\ \E s \in StoredShapes : s # Object.attrs.gridSize

(* C15: in every FieldMesh with harmonic 0 all component data are real:    *)
(* no construction path yields a static mesh that holds complex data.      *)
IsRealArray(A) == A.dtype = "float64" /\ \A m \in DOMAIN A.data : A.data[m][2] = 0
C15_StaticMeshIsReal ==
    (call.fn = "FieldMesh" /\ HasReturned /\ Object.attrs.harmonic = 0) =>
        \A k \in DOMAIN Object.components : IsRealArray(arrays[Object.components[k]])
C15_StaticMeshHoldsComplex ==
    /\ call.fn = "FieldMesh" /\ call.data # None /\ HasReturned
    /\ Object.attrs.harmonic = 0
    /\ \E k \in DOMAIN Object.components : ~IsRealArray(arrays[Object.components[k]])

(* C16: load_field_data raises when a component's array shape differs from *)
(* the declared gridSize or its unitDimension from the one expected for    *)
(* its record, and then no data dict is returned: none reaches the caller, *)
(* and FieldMesh(h5=name) makes no object and stores nothing.  A file      *)
(* without such a component loads.                                         *)
WrongShape(file, name) == file.datasets[name].data.shape # file.attrs.gridSize
WrongDimension(file, name) ==
    file.datasets[name].unitDimension # expected_record_unit_dimension[RecordOfName(name)]
Loads ==
    /\ \/ call.fn = "load_field_data"
       \/ call.fn = "FieldMesh" /\ call.h5 # None /\ isinstance_str(Val(call.h5))
    /\ Ended
C16_LoadRejectsMismatch ==
    Loads =>
        IF \E name \in DOMAIN Val(call.h5).datasets :
              WrongShape(Val(call.h5), name) \/ WrongDimension(Val(call.h5), name)
        THEN /\ ret.exc = "AssertionError"
             /\ ret.value = NoneValue
             /\ ~Constructed
             /\ Store = EmptyStore
        ELSE /\ HasReturned
             /\ call.fn = "load_field_data" =>
                   DOMAIN ret.value.components = DOMAIN Val(call.h5).datasets
C16_Witness ==
    /\ Loads
    /\ call.fn = "load_field_data"
    /\ \E name \in DOMAIN Val(call.h5).datasets : WrongShape(Val(call.h5), name)
    /\ \A name \in DOMAIN Val(call.h5).datasets : ~WrongDimension(Val(call.h5), name)
    /\ ret.exc = "AssertionError"

(* C17: a FieldMesh is immutable after construction: no operation of the   *)
(* object (accessors, predicates, scale and phase) changes its attrs or    *)
(* its component mapping once __init__ has returned.                       *)
MeshOperations == {"scale", "phase", "shape", "is_static", "scale.setter", "phase.setter"}
C17_OperationsLeaveMeshUnchanged ==
    [][(Constructed /\ call'.fn \in MeshOperations) =>
          /\ Object'.attrs = Object.attrs
          /\ Object'.components = Object.components]_vars
C17_SetterChangedAttrs ==
    /\ Constructed
    /\ call.fn = "scale.setter"
    /\ Object.attrs.fieldScale # call.old

(* C18: a FieldMesh owns its mappings: after FieldMesh(data=d) returned, a *)
(* write of the caller to d does not change what the mesh reports through  *)
(* attrs, components, shape or is_static.                                  *)
CallerWrites == {"d['attrs']['harmonic'] = n", "del d['components'][name]"}
Reports ==
    [attrs |-> Object.attrs,
     components |-> [k \in DOMAIN Object.components |-> arrays[Object.components[k]]],
     shape |-> Method(Object, "shape", <<>>).value,
     is_static |-> Method(Object, "is_static", <<>>).value]
C18_CallerWritesInvisible ==
    [][(Constructed /\ call'.fn \in CallerWrites) => Reports' = Reports]_vars
C18_MeshSeesCallerWrite ==
    /\ Constructed
    /\ aliases["_data"] = CallerId
    /\ call.fn = "d['attrs']['harmonic'] = n"
    /\ Object.attrs.harmonic # call.old
    /\ Method(Object, "is_static", <<>>).value.value # (call.old = 0)

(* C21: make_dipole_corrector_fieldmesh in mode 'saddle' with R, L and     *)
(* theta supplied returns a FieldMesh also when npts is omitted: the       *)
(* dispatcher forwards no unusable discretization count.                   *)
SaddleGiven(kw) == kw.mode = "saddle" /\ kw.R # None /\ kw.L # None /\ kw.theta # None
C21_SaddleDefaultNpts ==
    (DispatcherEnded /\ SaddleGiven(call.kw) /\ call.kw.npts = None) =>
        (HasReturned /\ ret.value.type = "FieldMesh")
C21_OmittedNptsRaises ==
    /\ DispatcherEnded
    /\ SaddleGiven(call.kw)
    /\ call.kw.npts = None
    /\ call.kw.xmin # None /\ call.kw.ymin # None /\ call.kw.zmin # None
    /\ ret.exc = "TypeError"
C21_GivenNptsReturns ==
    /\ DispatcherEnded
    /\ SaddleGiven(call.kw)
    /\ call.kw.npts # None
    /\ HasReturned /\ ret.value.type = "FieldMesh"

(* C22: FieldMesh can be initialised from an open h5 handle as from a file *)
(* name: after FieldMesh(h5=handle) the mesh holds the attrs and           *)
(* components loaded from the handle, as FieldMesh(h5=path) does.          *)
FromFile(kind) ==
    /\ call.fn = "FieldMesh" /\ call.h5 # None /\ Val(call.h5).kind = kind
    /\ Ended
Loaded == load_field_data(Val(call.h5))
HoldsLoaded ==
    /\ HasReturned
    /\ Constructed
    /\ Object.attrs = Loaded.value.attrs
    /\ [k \in DOMAIN Object.components |-> arrays[Object.components[k]]]
          = Loaded.value.components
C22_HandleLoadsLikePath ==
    /\ (FromFile("str") /\ Loaded.exc = "") => HoldsLoaded
    /\ (FromFile("handle") /\ Loaded.exc = "") => HoldsLoaded
C22_HandleMakesNoMesh ==
    /\ FromFile("handle")
    /\ Loaded.exc = ""
    /\ DOMAIN Val(call.h5).datasets # {}
    /\ ret.exc = "TypeError"
    /\ ~Constructed
C22_PathLoads ==
    /\ FromFile("str")
    /\ DOMAIN Val(call.h5).datasets # {}
    /\ HoldsLoaded

(* C23: phase returns phi = -2*pi*RFphase for the stored RFphase, as its   *)
(* documentation states, and after mesh.phase = val a read of phase        *)
(* returns val.                                                            *)
PhaseRead == Constructed /\ call.fn = "phase" /\ HasReturned
PhaseSet == Constructed /\ call.fn = "phase.setter"
C23_PhaseAsDocumented ==
    /\ PhaseRead => ret.value.value = RNeg(RMul(TwoPi, Object.attrs.RFphase))
    /\ PhaseSet => phase(Object).value.value = call.val
C23_PhaseHasOppositeSign ==
    /\ PhaseRead
    /\ Object.attrs.RFphase # Num(0)
    /\ ret.value.value = RMul(TwoPi, Object.attrs.RFphase)
    /\ ret.value.value # RNeg(RMul(TwoPi, Object.attrs.RFphase))
C23_PhaseRoundTrip ==
    PhaseSet => phase(Object).value.value = call.val

(* C24: the alias attributes bound at construction stay consistent with    *)
(* the component mapping after any sequence of caller operations: for      *)
(* every stored component k with alias a, mesh.a and mesh[a] are the array *)
(* components[k], after writes through the alias and after the array in    *)
(* components[k] is replaced.                                              *)
IsArray(r, id) == r.exc = "" /\ r.value.type = "ndarray" /\ r.value.id = id
C24_AliasesConsistent ==
    \A k \in DOMAIN components :
        /\ IsArray(__getattribute__(Self, component_alias[k]), components[k])
        /\ IsArray(Method(Self, "__getitem__", <<component_alias[k]>>), components[k])
C24_AliasStaleAfterReplacement ==
    /\ call.fn = "mesh.components[k] = A"
    /\ call.key = "electricField/z"
    /\ IsArray(Method(Self, "__getitem__", <<"Ez">>), components[call.key])
    /\ IsArray(__getattribute__(Self, "Ez"), IdOf(call.key))
    /\ components[call.key] # IdOf(call.key)
(* Writes through an alias alone keep mesh.a, mesh[a] and components[k]    *)
(* one array, for every alias but Br.                                      *)
C24_WritesKeepAliases ==
    \A k \in DOMAIN components :
        (components[k] = IdOf(k) /\ k # "magneticField/r") =>
            /\ IsArray(__getattribute__(Self, component_alias[k]), components[k])
            /\ IsArray(Method(Self, "__getitem__", <<component_alias[k]>>), components[k])

(* C25: bfield_from_thin_rectangular_coil is the closed path of four       *)
(* segments p1->p2->p3->p4->p1 over the corners (-a/2,y0,-b/2),            *)
(* (+a/2,y0,-b/2), (+a/2,y0,+b/2), (-a/2,y0,+b/2), all at y = y0 and all   *)
(* with the same signed current: the field returned is the sum of the four *)
(* wire fields, each segment starting where the one before ends and the    *)
(* last ending where the first starts.                                     *)
RectangleCorner(i) ==
    <<RMul(Num(<<-1, 1, 1, -1>>[i]), RDiv(call.a, Num(2))),
      call.y0,
      RMul(Num(<<-1, -1, 1, 1>>[i]), RDiv(call.b, Num(2)))>>
RectangleSegment(i) ==
    [start |-> RectangleCorner(i), end |-> RectangleCorner((i % 4) + 1),
     current |-> call.current]
SegmentField(seg) ==
    Call("bfield_from_thin_straight_wire",
         <<call.G[1], call.G[2], call.G[3], seg.start, seg.end, seg.current, FALSE, FALSE>>).value
CoilReturned == call.fn = "bfield_from_thin_rectangular_coil" /\ HasReturned
C25_CoilIsClosedRectangle ==
    CoilReturned =>
        /\ \A i \in 1..4 : RectangleSegment(i).end = RectangleSegment((i % 4) + 1).start
        /\ \A i \in 1..4 : RectangleSegment(i).start[2] = call.y0
        /\ ret.value = Tuple3Add(Tuple3Add(Tuple3Add(SegmentField(RectangleSegment(1)),
                                                    SegmentField(RectangleSegment(2))),
                                          SegmentField(RectangleSegment(3))),
                                SegmentField(RectangleSegment(4)))
C25_Witness ==
    /\ CoilReturned
    /\ call.a # Num(0) /\ call.b # Num(0) /\ call.current # Num(0)
    /\ call.y0 # Num(0)
    /\ \E c \in 1..3 : \E m \in DOMAIN ret.value.items[c].data :
          ret.value.items[c].data[m] \notin {{}, NaN}

(* C26: the four element groups of bfield_from_thin_saddle_coil form one   *)
(* closed current path: the legs run between z = -L/2 and z = +L/2, and    *)
(* following the arc at -L/2, a leg, the arc at +L/2 and the other leg in  *)
(* the direction of their segments, the end of each element is the start   *)
(* of the next, all with the same signed current.  ClosedPath is stated    *)
(* for the points the arcs have; C26_SaddleIsClosedPath takes arcs of at   *)
(* least two points, C26_ClosedForEveryCount every count.                  *)
SaddleCall == call.fn = "bfield_from_thin_saddle_coil" /\ Ended /\ call.npts # None
LowerArc == get_arc_vectors(RNeg(RDiv(call.L, Num(2))), call.R, call.theta, Val(call.npts))
UpperArc == get_arc_vectors(RDiv(call.L, Num(2)), call.R, RNeg(call.theta), Val(call.npts))
Azimuth == RDiv(RSub(pi, call.theta), Num(2))
Leg(side, z) ==
    <<RMul(RMul(Num(side), call.R), cos(Azimuth)), RMul(call.R, sin(Azimuth)),
      RMul(Num(z), RDiv(call.L, Num(2)))>>
First(ps) == ps[1]
Last(ps) == ps[Len(ps)]
ClosedPath ==
    /\ Len(LowerArc) >= 1 /\ Len(UpperArc) >= 1
    /\ \A ii \in 1..Len(LowerArc) : LowerArc[ii][3] = RNeg(RDiv(call.L, Num(2)))
    /\ \A ii \in 1..Len(UpperArc) : UpperArc[ii][3] = RDiv(call.L, Num(2))
    /\ Last(LowerArc) = Leg(-1, -1)
    /\ Leg(-1, 1) = First(UpperArc)
    /\ Last(UpperArc) = Leg(1, 1)
    /\ Leg(1, -1) = First(LowerArc)
RECURSIVE PathField(_, _)
PathField(ps, ii) ==
    IF ii + 1 >= Len(ps)
    THEN SegmentField([start |-> ps[ii], end |-> ps[ii + 1], current |-> call.current])
    ELSE Tuple3Add(SegmentField([start |-> ps[ii], end |-> ps[ii + 1],
                                 current |-> call.current]),
                   PathField(ps, ii + 1))
FieldOfClosedPath ==
    Tuple3Add(Tuple3Add(PathField(LowerArc, 1), PathField(UpperArc, 1)),
              Tuple3Add(PathField(<<Leg(1, 1), Leg(1, -1)>>, 1),
                        PathField(<<Leg(-1, -1), Leg(-1, 1)>>, 1)))
C26_OnePointArcLeavesGap ==
    /\ SaddleCall
    /\ Val(call.npts) = 1
    /\ call.theta = pi /\ call.R # Num(0) /\ call.L # Num(0)
    /\ HasReturned
    /\ Last(LowerArc) # Leg(-1, -1)

(* C27: for the count N, get_arc_vectors yields exactly N points on the    *)
(* circle of radius R at axial offset h, the first at azimuth              *)
(* phi = (pi - theta)/2 and the last at phi + theta, and                   *)
(* bfield_from_thin_wire_arc sums the N-1 segments from point i to point   *)
(* i+1; N = 1 yields a field that is zero everywhere.  C27_ArcPoints has   *)
(* the last point at phi + theta for N >= 2, C27_LastPointForEveryCount    *)
(* for every N >= 1.                                                       *)
ArcCall == call.fn = "bfield_from_thin_wire_arc" /\ Ended /\ call.npts # None
ArcOfCall == get_arc_vectors(call.h, call.R, call.theta, Val(call.npts))
AtAzimuth(az) == <<RMul(call.R, cos(az)), RMul(call.R, sin(az)), call.h>>
ArcStart == RDiv(RSub(pi, call.theta), Num(2))
IsZeroField(F) ==
    \A c \in 1..3 : \A m \in DOMAIN F.items[c].data : F.items[c].data[m] = Num(0)
PointsOnCircle ==
    /\ Len(ArcOfCall) = Val(call.npts)
    /\ \A ii \in 1..Len(ArcOfCall) :
          /\ ArcOfCall[ii][3] = call.h
          /\ RAdd(Square(ArcOfCall[ii][1]), Square(ArcOfCall[ii][2])) = Square(call.R)
    /\ Val(call.npts) >= 1 => First(ArcOfCall) = AtAzimuth(ArcStart)
SumOfSegments ==
    HasReturned =>
        IF Val(call.npts) <= 1 THEN IsZeroField(ret.value)
        ELSE ret.value = PathField(ArcOfCall, 1)
C27_ArcPoints ==
    ArcCall =>
        /\ PointsOnCircle
        /\ Val(call.npts) >= 2 => Last(ArcOfCall) = AtAzimuth(RAdd(ArcStart, call.theta))
        /\ SumOfSegments
C27_Witness ==
    /\ ArcCall
    /\ Val(call.npts) = MaxNpts
    /\ call.theta = RNeg(pi)
    /\ call.R # Num(0) /\ call.current # Num(0)
    /\ HasReturned
    /\ ~IsZeroField(ret.value)
C27_LastPointForEveryCount ==
    ArcCall =>
        /\ PointsOnCircle
        /\ Val(call.npts) >= 1 => Last(ArcOfCall) = AtAzimuth(RAdd(ArcStart, call.theta))
        /\ SumOfSegments
C27_SinglePointAtStart ==
    /\ ArcCall
    /\ Val(call.npts) = 1
    /\ call.theta = pi /\ call.R # Num(0)
    /\ HasReturned /\ IsZeroField(ret.value)
    /\ Last(ArcOfCall) = AtAzimuth(ArcStart)
    /\ Last(ArcOfCall) # AtAzimuth(RAdd(ArcStart, call.theta))
====
